---- MODULE Spec2Model ----
(***************************************************************************)
(* Commentary analysis of the soccer-highlights application (src/app.py):  *)
(* SoccerAnalyzer (timestamp, event and entity extraction by regular       *)
(* expressions, proximity correlation, row formatting) and the handlers    *)
(* that call it.  Texts are TLA+ strings; an offset is a Python offset     *)
(* (0-based), so the character at offset p of s is SubSeq(s, p+1, p+1).    *)
(***************************************************************************)
EXTENDS Integers, Sequences, FiniteSets, TLC

(***************************************************************************)
(* Characters: the classes the regular expressions of the source use.      *)
(***************************************************************************)
AsciiUpper ==
  {"A", "B", "C", "D", "E", "F", "G", "H", "I", "J", "K", "L", "M",
   "N", "O", "P", "Q", "R", "S", "T", "U", "V", "W", "X", "Y", "Z"}

AsciiLower ==
  {"a", "b", "c", "d", "e", "f", "g", "h", "i", "j", "k", "l", "m",
   "n", "o", "p", "q", "r", "s", "t", "u", "v", "w", "x", "y", "z"}

Digits == {"0", "1", "2", "3", "4", "5", "6", "7", "8", "9"}

\* Non-ASCII letters of the Spanish tables and example texts (str patterns:
\* \w and \b are Unicode-aware, [A-Z] and [a-z] are not).  The parser reads
\* Latin-1 only, so c-cedilla stands for the c-acute (U+0107) of 'Modric'.
AccentedUpper == {"Á", "É", "Í", "Ó", "Ú", "Ñ", "Ç"}

AccentedLower == {"á", "é", "í", "ó", "ú", "ñ", "ç"}

\* \w
WordChars == AsciiUpper \cup AsciiLower \cup Digits \cup AccentedUpper \cup AccentedLower \cup {"_"}

\* \s, and the characters str.strip() removes
Whitespace == {" ", "\n", "\t"}

\* str.lower() on one character
LowerOf ==
  [c \in AsciiUpper \cup AccentedUpper |->
     CASE c = "A" -> "a" [] c = "B" -> "b" [] c = "C" -> "c" [] c = "D" -> "d"
       [] c = "E" -> "e" [] c = "F" -> "f" [] c = "G" -> "g" [] c = "H" -> "h"
       [] c = "I" -> "i" [] c = "J" -> "j" [] c = "K" -> "k" [] c = "L" -> "l"
       [] c = "M" -> "m" [] c = "N" -> "n" [] c = "O" -> "o" [] c = "P" -> "p"
       [] c = "Q" -> "q" [] c = "R" -> "r" [] c = "S" -> "s" [] c = "T" -> "t"
       [] c = "U" -> "u" [] c = "V" -> "v" [] c = "W" -> "w" [] c = "X" -> "x"
       [] c = "Y" -> "y" [] c = "Z" -> "z" [] c = "Á" -> "á" [] c = "É" -> "é"
       [] c = "Í" -> "í" [] c = "Ó" -> "ó" [] c = "Ú" -> "ú" [] c = "Ñ" -> "ñ"
       [] c = "Ç" -> "ç"]

LowerChar(c) == IF c \in DOMAIN LowerOf THEN LowerOf[c] ELSE c

\* str.lower(), by halves
RECURSIVE lower(_)
lower(s) ==
  IF Len(s) <= 1 THEN (IF s = "" THEN "" ELSE LowerChar(s))
  ELSE lower(SubSeq(s, 1, Len(s) \div 2)) \o lower(SubSeq(s, (Len(s) \div 2) + 1, Len(s)))

CharAt(s, p) == SubSeq(s, p + 1, p + 1)

\* s[a:b] for 0 <= a, b <= len(s)
Slice(s, a, b) == SubSeq(s, a + 1, b)

Least(S) == CHOOSE x \in S : \A y \in S : x <= y
Greatest(S) == CHOOSE x \in S : \A y \in S : x >= y

\* str.strip(): from the first to the last character that is not whitespace
strip(s) ==
  LET kept == {p \in 0..(Len(s) - 1) : CharAt(s, p) \notin Whitespace}
  IN IF kept = {} THEN "" ELSE Slice(s, Least(kept), Greatest(kept) + 1)

\* s.split(sep), for a non-empty separator
RECURSIVE SplitFrom(_, _, _, _)
SplitFrom(s, sep, cuts, p) ==
  LET ahead == {q \in cuts : q >= p}
  IN IF ahead = {} THEN <<Slice(s, p, Len(s))>>
     ELSE <<Slice(s, p, Least(ahead))>> \o SplitFrom(s, sep, cuts, Least(ahead) + Len(sep))

split(s, sep) ==
  SplitFrom(s, sep, {q \in 0..(Len(s) - Len(sep)) : Slice(s, q, q + Len(sep)) = sep}, 0)

RECURSIVE join(_, _)
join(sep, items) ==
  IF items = <<>> THEN ""
  ELSE IF Len(items) = 1 THEN items[1]
  ELSE items[1] \o sep \o join(sep, Tail(items))

\* int(s) for a str: whether it raises ValueError, and its value.  int accepts
\* whitespace around an optional sign and decimal digits.  (Underscores between
\* digits and non-ASCII digits are left out.)
int_body(s) ==
  LET t == strip(s)
  IN IF t # "" /\ CharAt(t, 0) \in {"+", "-"} THEN Slice(t, 1, Len(t)) ELSE t

int_raises(s) ==
  int_body(s) = "" \/ \E p \in 0..(Len(int_body(s)) - 1) : CharAt(int_body(s), p) \notin Digits

DigitValue(c) == CHOOSE d \in 0..9 : SubSeq("0123456789", d + 1, d + 1) = c

RECURSIVE DecimalValue(_)
DecimalValue(digits) ==
  IF digits = "" THEN 0
  ELSE 10 * DecimalValue(Slice(digits, 0, Len(digits) - 1))
         + DigitValue(CharAt(digits, Len(digits) - 1))

int(s) ==
  IF strip(s) # "" /\ CharAt(strip(s), 0) = "-" THEN 0 - DecimalValue(int_body(s))
  ELSE DecimalValue(int_body(s))

\* str(n) for n >= 0
RECURSIVE str(_)
str(n) ==
  IF n < 10 THEN SubSeq("0123456789", n + 1, n + 1)
  ELSE str(n \div 10) \o SubSeq("0123456789", (n % 10) + 1, (n % 10) + 1)

(***************************************************************************)
(* Regular expressions: the subset of Python's re the source uses, as      *)
(* trees, and a backtracking matcher with re's priorities (alternatives    *)
(* left to right, greedy repetition).                                      *)
(***************************************************************************)
Lit(c) == <<"lit", c>>
Str(s) == <<"str", s>>
WordBoundary == <<"b">>
Digit == <<"digit">>
WordChar == <<"word">>
Space == <<"space">>
Range(set) == <<"range", set>>
Rep(node, lo, hi) == <<"rep", node, lo, hi>>
Alt(branches) == <<"alt", branches>>
Cat(items) == <<"seq", items>>

\* re.IGNORECASE compares case-folded characters
Fold(c, ignorecase) == IF ignorecase THEN LowerChar(c) ELSE c

\* \b at offset p: exactly one side is a word character
AtBoundary(text, p) ==
  (p > 0 /\ CharAt(text, p - 1) \in WordChars) # (p < Len(text) /\ CharAt(text, p) \in WordChars)

MatchesStr(s, text, p, ignorecase) ==
  /\ p + Len(s) <= Len(text)
  /\ \A i \in 1..Len(s) : Fold(CharAt(text, p + i - 1), ignorecase) = Fold(CharAt(s, i - 1), ignorecase)

MatchesChar(node, c, ignorecase) ==
  CASE node[1] = "lit" -> Fold(c, ignorecase) = Fold(node[2], ignorecase)
    [] node[1] = "digit" -> c \in Digits
    [] node[1] = "word" -> c \in WordChars
    [] node[1] = "space" -> c \in Whitespace
    [] node[1] = "range" -> c \in node[2]

\* A node that consumes exactly one character
SingleChar(node) == node[1] \in {"lit", "digit", "word", "space", "range"}

\* node = Rep(item, lo, hi) over a one-character item: the greedy repetition runs
\* to the first character the item rejects (at most hi characters) and gives
\* back one character at a time down to lo.
EndsRun(node, text, p, ignorecase) ==
  LET stop == Least({q \in p..Len(text) :
                       q = Len(text) \/ ~MatchesChar(node[2], CharAt(text, q), ignorecase)})
      longest == IF node[4] # -1 /\ p + node[4] < stop THEN p + node[4] ELSE stop
      shortest == p + node[3]
  IN [k \in 1..(IF longest >= shortest THEN longest - shortest + 1 ELSE 0) |-> longest - k + 1]

\* Ends(node, text, p, ignorecase): the offsets at which a match of node that
\* starts at offset p can end, in the order the backtracking matcher tries them.
RECURSIVE Ends(_, _, _, _)
RECURSIVE EndsSeq(_, _, _, _, _)
RECURSIVE EndsSeqEach(_, _, _, _, _, _)
RECURSIVE EndsAlt(_, _, _, _, _)
RECURSIVE EndsRep(_, _, _, _, _)
RECURSIVE EndsRepEach(_, _, _, _, _, _, _)

Ends(node, text, p, ignorecase) ==
  CASE node[1] = "b" -> IF AtBoundary(text, p) THEN <<p>> ELSE <<>>
    [] node[1] = "str" -> IF MatchesStr(node[2], text, p, ignorecase) THEN <<p + Len(node[2])>> ELSE <<>>
    [] node[1] = "seq" -> EndsSeq(node[2], 1, text, p, ignorecase)
    [] node[1] = "alt" -> EndsAlt(node[2], 1, text, p, ignorecase)
    [] node[1] = "rep" -> IF SingleChar(node[2]) THEN EndsRun(node, text, p, ignorecase)
                          ELSE EndsRep(node, 0, text, p, ignorecase)
    [] OTHER -> IF p < Len(text) /\ MatchesChar(node, CharAt(text, p), ignorecase) THEN <<p + 1>> ELSE <<>>

EndsSeq(items, i, text, p, ignorecase) ==
  IF i > Len(items) THEN <<p>>
  ELSE EndsSeqEach(items, i, text, Ends(items[i], text, p, ignorecase), 1, ignorecase)

EndsSeqEach(items, i, text, ends, k, ignorecase) ==
  IF k > Len(ends) THEN <<>>
  ELSE EndsSeq(items, i + 1, text, ends[k], ignorecase)
         \o EndsSeqEach(items, i, text, ends, k + 1, ignorecase)

EndsAlt(branches, j, text, p, ignorecase) ==
  IF j > Len(branches) THEN <<>>
  ELSE Ends(branches[j], text, p, ignorecase) \o EndsAlt(branches, j + 1, text, p, ignorecase)

\* node = Rep(item, lo, hi) with n repetitions done; hi = -1 is unbounded.
\* Greedy: one more repetition is tried before stopping here.
EndsRep(node, n, text, p, ignorecase) ==
  (IF node[4] = -1 \/ n < node[4]
     THEN EndsRepEach(node, n, text, p, Ends(node[2], text, p, ignorecase), 1, ignorecase)
     ELSE <<>>)
  \o (IF n >= node[3] THEN <<p>> ELSE <<>>)

EndsRepEach(node, n, text, p, ends, k, ignorecase) ==
  IF k > Len(ends) THEN <<>>
  ELSE (IF ends[k] > p THEN EndsRep(node, n + 1, text, ends[k], ignorecase) ELSE <<>>)
         \o EndsRepEach(node, n, text, p, ends, k + 1, ignorecase)

\* re.finditer(pattern, text, flags): the leftmost non-overlapping matches, each
\* [start, end].  starts holds every offset at which the pattern matches; the
\* scan takes the first of them at or after p and goes on from that match's end.
RECURSIVE ScanFrom(_, _, _, _, _)
ScanFrom(pattern, text, starts, p, ignorecase) ==
  LET ahead == {q \in starts : q >= p}
  IN IF ahead = {} THEN <<>>
     ELSE LET start == Least(ahead)
              end == Ends(pattern, text, start, ignorecase)[1]
          IN <<[start |-> start, end |-> end]>>
               \o ScanFrom(pattern, text, starts, IF end > start THEN end ELSE start + 1, ignorecase)

finditer(pattern, text, ignorecase) ==
  ScanFrom(pattern, text, {q \in 0..Len(text) : Ends(pattern, text, q, ignorecase) # <<>>}, 0, ignorecase)

\* Mutant: the matched text is reported case-folded.
group0_folded(text, m) == lower(Slice(text, m.start, m.end))

\* match.group(0)
group0(text, m) == Slice(text, m.start, m.end)

timestamp_patterns ==
  << (* \b(\d{1,2}):(\d{2})\b *)
     Cat(<<WordBoundary, Rep(Digit, 1, 2), Lit(":"), Rep(Digit, 2, 2), WordBoundary>>),
     (* \b(\d{1,2}):(\d{2}):(\d{2})\b *)
     Cat(<<WordBoundary, Rep(Digit, 1, 2), Lit(":"), Rep(Digit, 2, 2), Lit(":"), Rep(Digit, 2, 2), WordBoundary>>),
     (* \b(\d{1,3})\' *)
     Cat(<<WordBoundary, Rep(Digit, 1, 3), Lit("'")>>),
     (* \b(\d{1,3})\s*min\b *)
     Cat(<<WordBoundary, Rep(Digit, 1, 3), Rep(Space, 0, -1), Str("min"), WordBoundary>>) >>

event_patterns_en ==
  << << "goal",
       Cat(<<WordBoundary, Alt(<<Str("goal"), Cat(<<Str("score"), Rep(Lit("s"), 0, 1)>>),
         Str("scored"), Str("scoring"), Cat(<<Str("net"), Rep(Lit("s"), 0, 1)>>),
         Cat(<<Str("find"), Rep(Lit("s"), 0, 1), Rep(Space, 1, -1), Str("the"), Rep(Space, 1,
         -1), Str("net")>>), Cat(<<Str("back"), Rep(Space, 1, -1), Str("of"), Rep(Space, 1,
         -1), Str("the"), Rep(Space, 1, -1), Str("net")>>)>>), WordBoundary>>) >>,
     << "assist",
       Cat(<<WordBoundary, Alt(<<Str("assist"), Str("assists"), Str("assisted"),
         Cat(<<Str("set"), Rep(Lit("s"), 0, 1), Rep(Space, 1, -1), Str("up")>>),
         Cat(<<Str("crosse"), Rep(Lit("s"), 0, 1)>>), Cat(<<Str("passe"), Rep(Lit("s"), 0,
         1)>>)>>), WordBoundary>>) >>,
     << "yellow_card",
       Cat(<<WordBoundary, Alt(<<Cat(<<Str("yellow"), Rep(Space, 1, -1), Str("card")>>),
         Str("booked"), Str("cautioned"), Str("warning")>>), WordBoundary>>) >>,
     << "red_card",
       Cat(<<WordBoundary, Alt(<<Cat(<<Str("red"), Rep(Space, 1, -1), Str("card")>>),
         Cat(<<Str("sent"), Rep(Space, 1, -1), Str("off")>>), Str("dismissed"),
         Str("ejected")>>), WordBoundary>>) >>,
     << "substitution",
       Cat(<<WordBoundary, Alt(<<Cat(<<Str("substitut"), Rep(WordChar, 1, -1)>>),
         Cat(<<Str("sub"), Rep(WordChar, 1, -1)>>), Cat(<<Str("replace"), Rep(Lit("s"), 0,
         1)>>), Cat(<<Str("come"), Rep(Lit("s"), 0, 1), Rep(Space, 1, -1), Str("on")>>),
         Cat(<<Str("off"), Rep(Space, 1, -1), Str("for")>>)>>), WordBoundary>>) >>,
     << "corner",
       Cat(<<WordBoundary, Alt(<<Str("corner"), Cat(<<Str("corner"), Rep(Space, 1, -1),
         Str("kick")>>)>>), WordBoundary>>) >>,
     << "free_kick",
       Cat(<<WordBoundary, Alt(<<Cat(<<Str("free"), Rep(Space, 1, -1), Str("kick")>>),
         Cat(<<Str("direct"), Rep(Space, 1, -1), Str("kick")>>), Cat(<<Str("indirect"),
         Rep(Space, 1, -1), Str("kick")>>)>>), WordBoundary>>) >>,
     << "penalty",
       Cat(<<WordBoundary, Alt(<<Str("penalty"), Cat(<<Str("penalty"), Rep(Space, 1, -1),
         Str("kick")>>), Cat(<<Str("from"), Rep(Space, 1, -1), Str("the"), Rep(Space, 1, -1),
         Str("spot")>>)>>), WordBoundary>>) >>,
     << "offside",
       Cat(<<WordBoundary, Alt(<<Str("offside"), Cat(<<Str("offside"), Rep(Space, 1, -1),
         Str("trap")>>)>>), WordBoundary>>) >>,
     << "foul",
       Cat(<<WordBoundary, Alt(<<Str("foul"), Str("fouled"), Cat(<<Str("commit"), Rep(Lit("s"),
         0, 1), Rep(Space, 1, -1), Lit("a"), Rep(Space, 1, -1), Str("foul")>>)>>),
         WordBoundary>>) >>,
     << "save",
       Cat(<<WordBoundary, Alt(<<Str("save"), Cat(<<Str("save"), Rep(Lit("s"), 0, 1)>>),
         Str("saved"), Cat(<<Str("block"), Rep(Lit("s"), 0, 1)>>), Str("stopped")>>),
         WordBoundary>>) >>,
     << "shot",
       Cat(<<WordBoundary, Alt(<<Str("shot"), Cat(<<Str("shoot"), Rep(Lit("s"), 0, 1)>>),
         Str("shooting"), Str("attempt")>>), WordBoundary>>) >>,
     << "header",
       Cat(<<WordBoundary, Alt(<<Str("header"), Cat(<<Str("head"), Rep(Lit("s"), 0, 1)>>),
         Str("heading")>>), WordBoundary>>) >>,
     << "tackle",
       Cat(<<WordBoundary, Alt(<<Str("tackle"), Cat(<<Str("tackle"), Rep(Lit("s"), 0, 1)>>),
         Str("tackled")>>), WordBoundary>>) >> >>

event_patterns_es ==
  << << "goal",
       Cat(<<WordBoundary, Alt(<<Str("gol"), Str("goles"), Str("marca"), Str("anota"),
         Str("anotó"), Str("anotando"), Str("convierte"), Str("convertir")>>), WordBoundary>>) >>,
     << "assist",
       Cat(<<WordBoundary, Alt(<<Str("asistencia"), Str("asiste"), Str("pase"),
         Str("habilitación"), Str("habilita"), Str("centro"), Str("centrar")>>), WordBoundary>>) >>,
     << "yellow_card",
       Cat(<<WordBoundary, Alt(<<Cat(<<Str("tarjeta"), Rep(Space, 1, -1), Str("amarilla")>>),
         Str("amarilla"), Str("amonestado"), Str("amonestación"), Str("advertencia")>>),
         WordBoundary>>) >>,
     << "red_card",
       Cat(<<WordBoundary, Alt(<<Cat(<<Str("tarjeta"), Rep(Space, 1, -1), Str("roja")>>),
         Str("roja"), Str("expulsado"), Str("expulsión"), Str("echado")>>), WordBoundary>>) >>,
     << "substitution",
       Cat(<<WordBoundary, Alt(<<Str("sustitución"), Str("cambio"), Str("sustituye"),
         Str("reemplaza"), Str("entra"), Str("sale"), Str("ingresa")>>), WordBoundary>>) >>,
     << "corner",
       Cat(<<WordBoundary, Alt(<<Str("córner"), Str("corner"), Cat(<<Str("saque"), Rep(Space,
         1, -1), Str("de"), Rep(Space, 1, -1), Str("esquina")>>), Cat(<<Str("tiro"), Rep(Space,
         1, -1), Str("de"), Rep(Space, 1, -1), Str("esquina")>>)>>), WordBoundary>>) >>,
     << "free_kick",
       Cat(<<WordBoundary, Alt(<<Cat(<<Str("tiro"), Rep(Space, 1, -1), Str("libre")>>),
         Str("libre"), Str("falta"), Str("directo"), Str("indirecto")>>), WordBoundary>>) >>,
     << "penalty",
       Cat(<<WordBoundary, Alt(<<Str("penalty"), Str("penalti"), Str("penal"),
         Cat(<<Str("desde"), Rep(Space, 1, -1), Str("los"), Rep(Space, 1, -1), Str("once"),
         Rep(Space, 1, -1), Str("metros")>>)>>), WordBoundary>>) >>,
     << "offside",
       Cat(<<WordBoundary, Alt(<<Cat(<<Str("fuera"), Rep(Space, 1, -1), Str("de"), Rep(Space,
         1, -1), Str("juego")>>), Str("offside"), Cat(<<Str("posición"), Rep(Space, 1, -1),
         Str("adelantada")>>)>>), WordBoundary>>) >>,
     << "foul",
       Cat(<<WordBoundary, Alt(<<Str("falta"), Str("infracción"), Cat(<<Str("comete"),
         Rep(Space, 1, -1), Str("falta")>>), Str("golpe")>>), WordBoundary>>) >>,
     << "save",
       Cat(<<WordBoundary, Alt(<<Str("atajada"), Str("parada"), Str("ataja"), Str("para"),
         Str("detiene"), Str("bloquea")>>), WordBoundary>>) >>,
     << "shot",
       Cat(<<WordBoundary, Alt(<<Str("disparo"), Str("tiro"), Str("remate"), Str("intento"),
         Str("lanza"), Str("patea")>>), WordBoundary>>) >>,
     << "header",
       Cat(<<WordBoundary, Alt(<<Str("cabezazo"), Str("cabecea"), Cat(<<Str("de"), Rep(Space,
         1, -1), Str("cabeza")>>), Cat(<<Str("remate"), Rep(Space, 1, -1), Str("de"),
         Rep(Space, 1, -1), Str("cabeza")>>)>>), WordBoundary>>) >>,
     << "tackle",
       Cat(<<WordBoundary, Alt(<<Str("entrada"), Str("barrida"), Str("anticipo"),
         Str("recupera"), Str("quita")>>), WordBoundary>>) >> >>

common_player_names_en ==
  << "Messi", "Ronaldo", "Neymar", "Mbappe", "Benzema", "Modric", "Ramos", "Pique", "Iniesta",
    "Xavi", "Busquets", "Griezmann", "Haaland", "Lewandowski", "Salah", "Kane", "Sterling",
    "De Bruyne", "Mahrez", "Giroud", "Casemiro", "Kroos", "Bale", "Suarez", "Alba",
    "Ter Stegen" >>

common_player_names_es ==
  << "Messi", "Ronaldo", "Neymar", "Mbappé", "Benzema", "Modriç", "Ramos", "Piqué", "Iniesta",
    "Xavi", "Busquets", "Griezmann", "Haaland", "Lewandowski", "Salah", "Kane", "Sterling",
    "De Bruyne", "Mahrez", "Giroud", "Casemiro", "Kroos", "Bale", "Suárez", "Alba",
    "Ter Stegen", "Vinicius", "Pedri", "Gavi", "Ansu Fati", "Rodrygo", "Valverde", "Camavinga",
    "Tchouaméni", "Bellingham", "Luka Modriç", "Toni Kroos" >>

team_names_en ==
  << "Barcelona", "Real Madrid", "PSG", "Manchester United", "Manchester City", "Liverpool",
    "Chelsea", "Arsenal", "Tottenham", "Bayern Munich", "Borussia Dortmund", "Juventus",
    "AC Milan", "Inter Milan", "Atletico Madrid" >>

team_names_es ==
  << "Barcelona", "Real Madrid", "Atlético Madrid", "Sevilla", "Valencia", "Athletic Bilbao",
    "Real Sociedad", "Villarreal", "Betis", "Getafe", "Boca Juniors", "River Plate",
    "Independiente", "Racing", "San Lorenzo", "América", "Chivas", "Cruz Azul", "Pumas",
    "Tigres" >>

(***************************************************************************)
(* SoccerAnalyzer                                                          *)
(***************************************************************************)
\* name_pattern: \b[A-Z][a-z]+(?:\s+[A-Z][a-z]+)?\b
name_pattern ==
  Cat(<<WordBoundary, Range(AsciiUpper), Rep(Range(AsciiLower), 1, -1),
        Rep(Cat(<<Rep(Space, 1, -1), Range(AsciiUpper), Rep(Range(AsciiLower), 1, -1)>>), 0, 1),
        WordBoundary>>)

\* the words the heuristic skips
common_words == {"Goal", "Card", "Free", "Corner", "Penalty", "The", "And", "But", "After"}

window == 50

\* r'\b' + re.escape(name) + r'\b'
NamePattern(name) == Cat(<<WordBoundary, Str(name), WordBoundary>>)

abs(n) == IF n < 0 THEN 0 - n ELSE n
max(a, b) == IF a >= b THEN a ELSE b
min(a, b) == IF a <= b THEN a ELSE b

\* The tables of an analyzer object; a selected table is a reference to one of them.
Table(ref) ==
  CASE ref = "event_patterns_en" -> event_patterns_en
    [] ref = "event_patterns_es" -> event_patterns_es
    [] ref = "common_player_names_en" -> common_player_names_en
    [] ref = "common_player_names_es" -> common_player_names_es
    [] ref = "team_names_en" -> team_names_en
    [] ref = "team_names_es" -> team_names_es

\* Mutant: every analyzer gets the English tables.
SoccerAnalyzer_english_only(language) ==
  [language |-> language,
   event_patterns |-> "event_patterns_en",
   common_player_names |-> "common_player_names_en",
   team_names |-> "team_names_en"]

\* SoccerAnalyzer.__init__
SoccerAnalyzer(language) ==
  [language |-> language,
   event_patterns |-> IF language = "es" THEN "event_patterns_es" ELSE "event_patterns_en",
   common_player_names |-> IF language = "es" THEN "common_player_names_es" ELSE "common_player_names_en",
   team_names |-> IF language = "es" THEN "team_names_es" ELSE "team_names_en"]

\* the concatenation of a list of lists, by halves
RECURSIVE Flatten(_)
Flatten(lists) ==
  IF Len(lists) = 0 THEN <<>>
  ELSE IF Len(lists) = 1 THEN lists[1]
  ELSE Flatten(SubSeq(lists, 1, Len(lists) \div 2))
         \o Flatten(SubSeq(lists, (Len(lists) \div 2) + 1, Len(lists)))

\* Mutant: the timestamps of all patterns, sorted by their place in the text.
extract_timestamps_sorted(text) ==
  LET found ==
        {[raw |-> group0(text, m), start |-> m.start, end |-> m.end] :
           m \in UNION {{finditer(timestamp_patterns[i], text, TRUE)[k] :
                           k \in 1..Len(finditer(timestamp_patterns[i], text, TRUE))} :
                         i \in 1..Len(timestamp_patterns)}}
      Before(a, b) == a.start < b.start \/ (a.start = b.start /\ a.end < b.end)
  IN [k \in 1..Cardinality(found) |->
        CHOOSE x \in found : Cardinality({y \in found : Before(y, x)}) = k - 1]

\* extract_timestamps: the matches of each pattern, pattern after pattern.
\* (The 'groups' field of the source's records is never read and is left out.)
\* Mutant: an occurrence that overlaps an earlier one is dropped.
extract_timestamps_no_overlap(text) ==
  LET all == Flatten([i \in 1..Len(timestamp_patterns) |->
                       LET matches == finditer(timestamp_patterns[i], text, TRUE)
                       IN [k \in 1..Len(matches) |->
                             [raw |-> group0(text, matches[k]),
                              start |-> matches[k].start,
                              end |-> matches[k].end]]])
      kept == {k \in 1..Len(all) :
                 \A j \in 1..(k - 1) : all[j].end <= all[k].start \/ all[k].end <= all[j].start}
  IN [n \in 1..Cardinality(kept) |->
        all[CHOOSE k \in kept : Cardinality({j \in kept : j < k}) = n - 1]]

extract_timestamps(text) ==
  Flatten([i \in 1..Len(timestamp_patterns) |->
            LET matches == finditer(timestamp_patterns[i], text, TRUE)
            IN [k \in 1..Len(matches) |->
                  [raw |-> group0(text, matches[k]),
                   start |-> matches[k].start,
                   end |-> matches[k].end]]])

\* Mutant: a span already reported under one event type is not reported again.
extract_events_one_per_span(self, text) ==
  LET patterns == Table(self.event_patterns)
      all == Flatten([i \in 1..Len(patterns) |->
                       LET matches == finditer(patterns[i][2], text, TRUE)
                       IN [k \in 1..Len(matches) |->
                             [type |-> patterns[i][1],
                              text |-> group0(text, matches[k]),
                              start |-> matches[k].start,
                              end |-> matches[k].end]]])
      kept == {k \in 1..Len(all) :
                 \A j \in 1..(k - 1) : all[j].start # all[k].start \/ all[j].end # all[k].end}
  IN [n \in 1..Cardinality(kept) |->
        all[CHOOSE k \in kept : Cardinality({j \in kept : j < k}) = n - 1]]

extract_events(self, text) ==
  LET patterns == Table(self.event_patterns)
  IN Flatten([i \in 1..Len(patterns) |->
               LET matches == finditer(patterns[i][2], text, TRUE)
               IN [k \in 1..Len(matches) |->
                     [type |-> patterns[i][1],
                      text |-> group0(text, matches[k]),
                      start |-> matches[k].start,
                      end |-> matches[k].end]]])

\* Mutant: a known name is collected at its first match only.
KnownEntities_first_match(names, label, text) ==
  Flatten([i \in 1..Len(names) |->
            LET matches == finditer(NamePattern(names[i]), text, TRUE)
            IN [k \in 1..min(1, Len(matches)) |->
                  [text |-> group0(text, matches[k]),
                   label |-> label,
                   start |-> matches[k].start,
                   end |-> matches[k].end]]])

\* the entities one list of known names yields
KnownEntities(names, label, text) ==
  Flatten([i \in 1..Len(names) |->
            LET matches == finditer(NamePattern(names[i]), text, TRUE)
            IN [k \in 1..Len(matches) |->
                  [text |-> group0(text, matches[k]),
                   label |-> label,
                   start |-> matches[k].start,
                   end |-> matches[k].end]]])

\* Mutant: the heuristic takes a name as already found only when it is a
\* listed player or team.
AlreadyFound_listed(name, entities) ==
  /\ \E i \in 1..Len(entities) : lower(entities[i].text) = lower(name)
  /\ \E ref \in {"common_player_names_en", "common_player_names_es", "team_names_en", "team_names_es"} :
       \E j \in 1..Len(Table(ref)) : lower(Table(ref)[j]) = lower(name)

\* Mutant: the heuristic never takes a name as already found.
AlreadyFound_never(name, entities) == FALSE

\* "already found": some collected entity has the same text, case folded
AlreadyFound(name, entities) ==
  \E i \in 1..Len(entities) : lower(entities[i].text) = lower(name)

\* the loop over the capitalized-word matches, from match k on
RECURSIVE HeuristicEntities(_, _, _, _)
HeuristicEntities(matches, k, text, entities) ==
  IF k > Len(matches) THEN entities
  ELSE LET name == group0(text, matches[k])
       IN IF name \notin common_words /\ ~AlreadyFound(name, entities)
          THEN HeuristicEntities(matches, k + 1, text,
                 Append(entities, [text |-> name, label |-> "PERSON",
                                   start |-> matches[k].start, end |-> matches[k].end]))
          ELSE HeuristicEntities(matches, k + 1, text, entities)

extract_players_and_entities(self, text) ==
  HeuristicEntities(finditer(name_pattern, text, FALSE), 1, text,
    KnownEntities(Table(self.common_player_names), "PERSON", text)
      \o KnownEntities(Table(self.team_names), "ORG", text))

\* Mutant: the window test with strict comparisons.
Nearby_strict(element, timestamp, w) ==
  abs(element.start - timestamp.start) < w \/ abs(element.end - timestamp.end) < w

\* the window test of find_nearby_elements
Nearby(element, timestamp, w) ==
  abs(element.start - timestamp.start) <= w \/ abs(element.end - timestamp.end) <= w

\* [x for x in items if Nearby(x, timestamp)], in the order of items
RECURSIVE NearbyOf(_, _, _)
NearbyOf(items, timestamp, w) ==
  IF items = <<>> THEN <<>>
  ELSE (IF Nearby(Head(items), timestamp, w) THEN <<Head(items)>> ELSE <<>>)
         \o NearbyOf(Tail(items), timestamp, w)

\* Mutant: a timestamp with nothing nearby yields no record.
find_nearby_elements_skip_empty(timestamps, events, entities, text, w) ==
  LET kept == {i \in 1..Len(timestamps) :
                 NearbyOf(events, timestamps[i], w) \o NearbyOf(entities, timestamps[i], w) # <<>>}
      Nth(k) == CHOOSE i \in kept : Cardinality({j \in kept : j < i}) = k - 1
  IN [k \in 1..Cardinality(kept) |->
        LET timestamp == timestamps[Nth(k)]
        IN [timestamp |-> timestamp.raw,
            events |-> NearbyOf(events, timestamp, w),
            entities |-> NearbyOf(entities, timestamp, w),
            context |-> strip(Slice(text, max(0, timestamp.start - w),
                                    min(Len(text), timestamp.end + w)))]]

\* Mutant: the context is the slice as cut, whitespace included.
find_nearby_elements_unstripped(timestamps, events, entities, text, w) ==
  [i \in 1..Len(timestamps) |->
     LET timestamp == timestamps[i]
         context_start == max(0, timestamp.start - w)
         context_end == min(Len(text), timestamp.end + w)
     IN [timestamp |-> timestamp.raw,
         events |-> NearbyOf(events, timestamp, w),
         entities |-> NearbyOf(entities, timestamp, w),
         context |-> Slice(text, context_start, context_end)]]

find_nearby_elements(timestamps, events, entities, text, w) ==
  [i \in 1..Len(timestamps) |->
     LET timestamp == timestamps[i]
         context_start == max(0, timestamp.start - w)
         context_end == min(Len(text), timestamp.end + w)
     IN [timestamp |-> timestamp.raw,
         events |-> NearbyOf(events, timestamp, w),
         entities |-> NearbyOf(entities, timestamp, w),
         context |-> strip(Slice(text, context_start, context_end))]]

\* The iteration order of a set of event-type strings.  CPython orders a set by
\* the hashes of its elements, and string hashes are salted once per process
\* (PYTHONHASHSEED): the order is fixed within a process and arbitrary across
\* processes.  A seed selects one order of the event types.
TypeIndex(type) == CHOOSE i \in 1..Len(event_patterns_en) : event_patterns_en[i][1] = type

HashRank(type, seed) ==
  LET n == Len(event_patterns_en)
  IN IF seed % 2 = 0 THEN (TypeIndex(type) + (seed \div 2)) % n
     ELSE (n - TypeIndex(type) + (seed \div 2)) % n

\* list(set(items))
list_set(items, seed) ==
  LET S == {items[i] : i \in 1..Len(items)}
  IN [k \in 1..Cardinality(S) |->
        CHOOSE x \in S : Cardinality({y \in S : HashRank(y, seed) < HashRank(x, seed)}) = k - 1]

RECURSIVE TextsWithLabel(_, _)
TextsWithLabel(entities, label) ==
  IF entities = <<>> THEN <<>>
  ELSE (IF Head(entities).label = label THEN <<Head(entities).text>> ELSE <<>>)
         \o TextsWithLabel(Tail(entities), label)

\* one row of analyze_commentary's formatting loop
\* Mutant: the team names are put before the player names.
FormatResult_teams_first(result, seed) ==
  LET event_types == list_set([i \in 1..Len(result.events) |-> result.events[i].type], seed)
      player_names == TextsWithLabel(result.entities, "PERSON")
      team_names == TextsWithLabel(result.entities, "ORG")
      tags == event_types \o team_names \o player_names
  IN [Time |-> result.timestamp,
      Tags |-> IF tags # <<>> THEN join(", ", tags) ELSE "General mention",
      Context |-> IF Len(result.context) > 100
                    THEN Slice(result.context, 0, 100) \o "..."
                    ELSE result.context]

\* Mutant: a context of exactly 100 characters is marked as truncated too.
FormatResult_from_100(result, seed) ==
  LET event_types == list_set([i \in 1..Len(result.events) |-> result.events[i].type], seed)
      player_names == TextsWithLabel(result.entities, "PERSON")
      team_names == TextsWithLabel(result.entities, "ORG")
      tags == event_types \o player_names \o team_names
  IN [Time |-> result.timestamp,
      Tags |-> IF tags # <<>> THEN join(", ", tags) ELSE "General mention",
      Context |-> IF Len(result.context) >= 100
                    THEN Slice(result.context, 0, 100) \o "..."
                    ELSE result.context]

FormatResult(result, seed) ==
  LET event_types == list_set([i \in 1..Len(result.events) |-> result.events[i].type], seed)
      player_names == TextsWithLabel(result.entities, "PERSON")
      team_names == TextsWithLabel(result.entities, "ORG")
      tags == event_types \o player_names \o team_names
  IN [Time |-> result.timestamp,
      Tags |-> IF tags # <<>> THEN join(", ", tags) ELSE "General mention",
      Context |-> IF Len(result.context) > 100
                    THEN Slice(result.context, 0, 100) \o "..."
                    ELSE result.context]

format_results(analysis_results, seed) ==
  [i \in 1..Len(analysis_results) |-> FormatResult(analysis_results[i], seed)]

\* 'sub in s' for strings
Contains(s, sub) ==
  \E p \in 0..(Len(s) - Len(sub)) : Slice(s, p, p + Len(sub)) = sub

(***************************************************************************)
(* VideoPlayerWithAds: the player whose jersey an advertisement shows      *)
(***************************************************************************)
\* the entries of merchandise_db, with the fields the code reads (prices in cents)
merchandise_db ==
  << [key |-> "messi", name |-> "Lionel Messi", team |-> "Inter Miami",
      jersey_price |-> 8999, description |-> "Official Inter Miami Messi #10 Jersey"],
     [key |-> "ronaldo", name |-> "Cristiano Ronaldo", team |-> "Al Nassr",
      jersey_price |-> 7999, description |-> "Official Al Nassr Ronaldo #7 Jersey"],
     [key |-> "mbappe", name |-> "Kylian Mbappé", team |-> "Real Madrid",
      jersey_price |-> 9499, description |-> "Official Real Madrid Mbappé #9 Jersey"],
     [key |-> "haaland", name |-> "Erling Haaland", team |-> "Manchester City",
      jersey_price |-> 8999, description |-> "Official Manchester City Haaland #9 Jersey"] >>

\* F(v), with v evaluated once
With(v, F(_)) == CHOOSE r \in {F(x) : x \in {v}} : TRUE

\* [A-Z] and [a-z] under re.IGNORECASE
Letter == Range(AsciiUpper \cup AsciiLower)

\* [A-Z][a-z]+
OneName == Cat(<<Letter, Rep(Letter, 1, -1)>>)

\* [A-Z][a-z]+(?:\s+[A-Z][a-z]+)?
OneOrTwoNames ==
  Cat(<<Letter, Rep(Letter, 1, -1),
        Rep(Cat(<<Rep(Space, 1, -1), Letter, Rep(Letter, 1, -1)>>), 0, 1)>>)

\* the five local patterns, each cut into what stands before group 1, group 1,
\* and what stands after it
player_patterns ==
  << (* (?:goal by|scored by|assist by)\s+([A-Z][a-z]+(?:\s+[A-Z][a-z]+)?) *)
     [before |-> Cat(<<Alt(<<Str("goal by"), Str("scored by"), Str("assist by")>>),
                       Rep(Space, 1, -1)>>),
      group |-> OneOrTwoNames,
      after |-> Cat(<<>>)],
     (* ([A-Z][a-z]+(?:\s+[A-Z][a-z]+)?)\s+(?:scores|goal|assist) *)
     [before |-> Cat(<<>>),
      group |-> OneOrTwoNames,
      after |-> Cat(<<Rep(Space, 1, -1), Alt(<<Str("scores"), Str("goal"), Str("assist")>>)>>)],
     (* ([A-Z][a-z]+)\s+(?:with the goal|finds the net) *)
     [before |-> Cat(<<>>),
      group |-> OneName,
      after |-> Cat(<<Rep(Space, 1, -1), Alt(<<Str("with the goal"), Str("finds the net")>>)>>)],
     (* ([A-Z][a-z]+)\s+(?:strikes|nets|converts) *)
     [before |-> Cat(<<>>),
      group |-> OneName,
      after |-> Cat(<<Rep(Space, 1, -1), Alt(<<Str("strikes"), Str("nets"), Str("converts")>>)>>)],
     (* (?:brilliant|amazing|incredible)\s+(?:goal|strike|finish)\s+(?:by|from)\s+([A-Z][a-z]+) *)
     [before |-> Cat(<<Alt(<<Str("brilliant"), Str("amazing"), Str("incredible")>>),
                       Rep(Space, 1, -1),
                       Alt(<<Str("goal"), Str("strike"), Str("finish")>>),
                       Rep(Space, 1, -1),
                       Alt(<<Str("by"), Str("from")>>),
                       Rep(Space, 1, -1)>>),
      group |-> OneName,
      after |-> Cat(<<>>)] >>

\* the spans group 1 can take in a match that starts at offset p, in the order
\* the backtracking matcher tries them
GroupSpans(pattern, text, p) ==
  With(Ends(pattern.before, text, p, TRUE), LAMBDA firsts :
    Flatten([a \in 1..Len(firsts) |->
      With(Ends(pattern.group, text, firsts[a], TRUE), LAMBDA seconds :
        Flatten([b \in 1..Len(seconds) |->
          IF Ends(pattern.after, text, seconds[b], TRUE) # <<>>
            THEN <<[start |-> firsts[a], end |-> seconds[b]]>>
            ELSE <<>>]))]))

\* re.search(pattern, text, re.IGNORECASE): <<>> for no match, else <<span of
\* group 1>> in the leftmost match
search(pattern, text) ==
  With([p \in 0..Len(text) |-> GroupSpans(pattern, text, p)], LAMBDA spans :
    With({p \in 0..Len(text) : spans[p] # <<>>}, LAMBDA starts :
      IF starts = {} THEN <<>> ELSE <<spans[Least(starts)][1]>>))

\* the first key of merchandise_db that a name matches, or None:
\* key.lower() in name.lower() or name.lower() in data['name'].lower()
KnownPlayerKey(name) ==
  LET hits == {i \in 1..Len(merchandise_db) :
                 \/ Contains(lower(name), lower(merchandise_db[i].key))
                 \/ Contains(lower(merchandise_db[i].name), lower(name))}
  IN IF hits = {} THEN "None" ELSE merchandise_db[Least(hits)].key

\* match.group(1).strip(), for a match
player_name(event_text, match) == strip(group0(event_text, match[1]))

\* the local pattern matching of extract_player_from_event: the key of the
\* first pattern whose group 1 matches a known player
local_pattern_matching(event_text) ==
  With([i \in 1..Len(player_patterns) |->
          With(search(player_patterns[i], event_text), LAMBDA match :
            IF match # <<>> THEN KnownPlayerKey(player_name(event_text, match)) ELSE "None")],
       LAMBDA keys :
         With({i \in 1..Len(player_patterns) : keys[i] # "None"}, LAMBDA hits :
           IF hits = {} THEN "None" ELSE keys[Least(hits)]))

\* the entities of a response that name a known player with enough confidence
\* (Score in hundredths)
ConfidentPlayers(Entities) ==
  {k \in 1..Len(Entities) :
     /\ Entities[k].Type = "PERSON"
     /\ Entities[k].Score > 80
     /\ KnownPlayerKey(Entities[k].Text) # "None"}

\* Mutant: the call of the recognizer stands in no try block.
extract_player_from_event_unguarded(self, event_text, outcome) ==
  IF self.aws_available
    THEN IF outcome.kind = "ok"
           THEN IF ConfidentPlayers(outcome.Entities) # {}
                  THEN [returned |-> KnownPlayerKey(
                                       outcome.Entities[Least(ConfidentPlayers(outcome.Entities))].Text),
                        raised |-> FALSE]
                  ELSE [returned |-> local_pattern_matching(event_text), raised |-> FALSE]
           ELSE [returned |-> "None", raised |-> TRUE]
    ELSE [returned |-> local_pattern_matching(event_text), raised |-> FALSE]

\* extract_player_from_event; outcome is what comprehend.detect_entities does
\* when called: it raises, or returns a response with or without 'Entities'.
\* Every exception inside the try block ends in "except Exception: pass".
extract_player_from_event(self, event_text, outcome) ==
  IF self.aws_available /\ outcome.kind = "ok" /\ ConfidentPlayers(outcome.Entities) # {}
    THEN [returned |-> KnownPlayerKey(
                         outcome.Entities[Least(ConfidentPlayers(outcome.Entities))].Text),
          raised |-> FALSE]
    ELSE [returned |-> local_pattern_matching(event_text), raised |-> FALSE]

\* event.get(key, default) for an event dict
get(event, key, default) == IF key \in DOMAIN event THEN event[key] ELSE default

\* Mutant: a timestamp of three parts is read as H:MM:SS.
timestamp_seconds_hms(timestamp_str, i) ==
  LET parts == split(timestamp_str, ":")
  IN IF Len(parts) = 2
       THEN [raised |-> int_raises(parts[1]) \/ int_raises(parts[2]),
             value |-> int(parts[1]) * 60 + int(parts[2])]
     ELSE IF Len(parts) = 3
       THEN [raised |-> \E k \in 1..3 : int_raises(parts[k]),
             value |-> int(parts[1]) * 3600 + int(parts[2]) * 60 + int(parts[3])]
     ELSE [raised |-> FALSE, value |-> i * 60]

\* the conversion of a timestamp to seconds in the ad builders; i is the
\* index of the event, from 0
timestamp_seconds(timestamp_str, i) ==
  IF Contains(timestamp_str, ":")
    THEN LET parts == split(timestamp_str, ":")
         IN IF Len(parts) = 2
              THEN IF int_raises(parts[1]) \/ int_raises(parts[2])
                     THEN [raised |-> TRUE, value |-> 0]
                     ELSE [raised |-> FALSE, value |-> int(parts[1]) * 60 + int(parts[2])]
              ELSE [raised |-> FALSE, value |-> i * 60]
    ELSE [raised |-> FALSE, value |-> i * 60]

\* self.merchandise_db[key]: the entry, or KeyError
db_lookup(key) ==
  IF \E k \in 1..Len(merchandise_db) : merchandise_db[k].key = key
    THEN [raised |-> FALSE,
          entry |-> merchandise_db[CHOOSE k \in 1..Len(merchandise_db) : merchandise_db[k].key = key]]
    ELSE [raised |-> TRUE, entry |-> merchandise_db[1]]

\* Mutant: the entry is looked up under whatever extract_player_from_event gave.
merchandise_for_no_default(player) == db_lookup(player)

\* if player_key and player_key in self.merchandise_db: ... else: ...['messi']
merchandise_for(player) ==
  IF player # "None" /\ player # "" /\ \E k \in 1..Len(merchandise_db) : merchandise_db[k].key = player
    THEN db_lookup(player)
    ELSE db_lookup("messi")

\* one entry of goal_ads, for the event at index i (from 0); found is what
\* extract_player_from_event did for the event's description.  The entry of
\* create_video_overlay_html has 'duration' and 'goal_description' as well.
goal_ad(builder, event, i, found) ==
  LET time == timestamp_seconds(get(event, "timestamp", str(i * 60) \o ":00"), i)
      chosen == merchandise_for(found.returned)
      ad == [time |-> time.value,
             player |-> chosen.entry.name,
             team |-> chosen.entry.team,
             price |-> chosen.entry.jersey_price,
             description |-> chosen.entry.description]
  IN [raised |-> time.raised \/ found.raised \/ chosen.raised,
      player_key |-> found.returned,
      ad |-> IF builder = "create_video_overlay_html"
               THEN [time |-> ad.time, duration |-> 6, player |-> ad.player, team |-> ad.team,
                     price |-> ad.price, description |-> ad.description,
                     goal_description |-> get(event, "description", "")]
               ELSE ad]

(***************************************************************************)
(* Inputs                                                                  *)
(***************************************************************************)
EnglishScenario ==
  "23' GOAL! Messi scores a brilliant goal after a perfect assist from Neymar\n45' Yellow card for Sergio Ramos"

SpanishScenario == "23' ¡GOL! Messi anota un gol brillante"

RepeatedMention == "Messi scores. Later, Messi scores again."

\* an unlisted name mentioned far before a timestamp and again next to it
LaterMention ==
  "Zidane starts on the left wing and runs past two defenders there. 23' goal by Zidane"

MaxSlack == 4
MaxHashSeed == 1
MaxRequests == 2
MaxLoads == 1
MaxPending == 2

\* n spaces
RECURSIVE Pad(_)
Pad(n) == IF n = 0 THEN "" ELSE IF n = 1 THEN " " ELSE Pad(n \div 2) \o Pad(n - (n \div 2))

\* the lengths of the gap between two phrases: adjacent, or about one window
GapLengths == {1} \cup ((window - MaxSlack)..(window - 2))

PhrasesEn ==
  {"23'", "1:23:45", "45 min", "goal", "net", "Neymar assists, Messi scores",
   "Sergio Ramos", "Zidane", "Penalty"}

PhrasesEs == {"7'", "gol", "falta de Mbappé"}

\* a team named before the players
TeamScenario == "Barcelona and Zidane: 23' Messi scores"

\* a token that two timestamp forms match
OverlapScenario == "7:05' goal"

\* texts that are the context of their timestamp, of 99, 100 and 101 characters
LongTexts == {"goal" \o Pad(n - 56) \o "23'" \o Pad(46) \o "net" : n \in 99..101}

TextsEn ==
  {EnglishScenario, RepeatedMention, LaterMention, TeamScenario, OverlapScenario}
    \cup LongTexts
    \cup {h \o Pad(g) \o t : h \in PhrasesEn, t \in PhrasesEn, g \in GapLengths}

TextsEs ==
  {SpanishScenario} \cup {h \o " " \o t : h \in PhrasesEs, t \in PhrasesEs}

BlankTexts == {"", " \n"}

\* what the user can submit to main: a language and a commentary text
MainInputs ==
  ({"en"} \X (TextsEn \cup BlankTexts)) \cup ({"es"} \X TextsEs)
    \cup {<<"en", SpanishScenario>>, <<"es", "goal 23'">>}

\* the commentary given to the overlay player
OverlayInputs ==
  ({"en"} \X ({EnglishScenario, RepeatedMention, "goal 23'", "45 min"} \cup BlankTexts))
    \cup {<<"es", SpanishScenario>>}

\* the descriptions of the goals an advertisement is shown for
EventTexts ==
  {"Amazing goal by Messi", "Brilliant strike by Ronaldo", "Yellow card shown", "Great play",
   "Messi scores a goal", "Great goal by Zidane", "Haaland finds the net", "Mbappe nets", "",
   "incredible finish from Kylian", "goal by  lionel messi today"}

\* what a call of comprehend.detect_entities can do
RecognizerOutcomes ==
  {[kind |-> "raises", Entities |-> <<>>],
   [kind |-> "no Entities key", Entities |-> <<>>],
   [kind |-> "ok", Entities |-> <<>>],
   [kind |-> "ok", Entities |-> <<[Type |-> "PERSON", Score |-> 95, Text |-> "Lionel Messi"]>>],
   [kind |-> "ok", Entities |-> <<[Type |-> "PERSON", Score |-> 80, Text |-> "Messi"]>>],
   [kind |-> "ok", Entities |-> <<[Type |-> "PERSON", Score |-> 99, Text |-> "Zidane"]>>],
   [kind |-> "ok", Entities |-> <<[Type |-> "ORGANIZATION", Score |-> 99, Text |-> "Ronaldo"]>>],
   [kind |-> "ok", Entities |-> <<[Type |-> "PERSON", Score |-> 99, Text |-> "Zidane"],
                                  [Type |-> "PERSON", Score |-> 90, Text |-> "Cristiano Ronaldo"]>>]}

None == "None"

\* the requests that use one analyzer, and the texts they send
Requests == 1..MaxRequests

RequestTexts == {"5' Messi scores", "5' ¡Gol de Messi!", "   "}

\* a request that has not called analyze_commentary; alone records, at the
\* call, what the call returns when no other call runs
Idle ==
  [pc |-> "idle", self |-> None, text |-> None, timestamps |-> <<>>, events |-> <<>>,
   entities |-> <<>>, analysis_results |-> <<>>, returned |-> <<>>, alone |-> <<>>]

demo_goals ==
  << [timestamp |-> "0:30", type |-> "goal", description |-> "Amazing goal by Messi"],
     [timestamp |-> "1:45", type |-> "goal", description |-> "Brilliant strike by Ronaldo"] >>

\* the timestamp strings extract_timestamps produces: one of each form, and
\* the two of a transcription token
TimestampTexts == {"At 1:23:45 and 12:34, 23' or 45 min", OverlapScenario}

TimestampStrings ==
  UNION {{extract_timestamps(text)[k].raw : k \in 1..Len(extract_timestamps(text))} :
           text \in TimestampTexts}

\* the goal events given to an ad builder: with a timestamp that
\* extract_timestamps produces or that of a demo goal, or without one; with a
\* description or without one
BuilderEvents ==
  LET base == {[type |-> "goal", description |-> d] :
                 d \in {"Amazing goal by Messi", "Haaland finds the net"}}
               \cup {[type |-> "goal"]}
  IN base \cup {[f \in DOMAIN e \cup {"timestamp"} |-> IF f = "timestamp" THEN t ELSE e[f]] :
                  e \in base, t \in TimestampStrings \cup {"0:30", "1:45"}}

GoalEventLists ==
  {<<e>> : e \in BuilderEvents}
    \cup {<<first, e>> : first \in {demo_goals[1], [type |-> "goal"]}, e \in BuilderEvents}

\* what the recognizer does in the calls of one builder run
BuilderOutcomes ==
  {[kind |-> "raises", Entities |-> <<>>],
   [kind |-> "ok", Entities |-> <<[Type |-> "PERSON", Score |-> 99, Text |-> "Zidane"]>>],
   [kind |-> "ok", Entities |-> <<[Type |-> "PERSON", Score |-> 90, Text |-> "Cristiano Ronaldo"]>>]}

\* currentAd = null (the ads are counted from 1)
NoAd == 0

\* None where a result record is expected
NoResult == [status |-> "None"]

\* the recognizer was not called
NotCalled == [kind |-> "not called", Entities |-> <<>>]

(***************************************************************************)
(* State                                                                   *)
(***************************************************************************)
VARIABLES
  hashseed,           \* the process's string-hash seed
  pc,                 \* which handler has run
  analyzer,           \* the SoccerAnalyzer object of the handler
  commentary_text,    \* the text given to analyze_commentary
  called,             \* the extractors the last analyze_commentary call invoked
  timestamps,         \* locals of the last analyze_commentary call
  events,
  entities,
  analysis_results,
  formatted_results,  \* what the last analyze_commentary call returned
  previous_results,   \* what the call before it returned
  runs,               \* how many times the handler has run
  goal_events,        \* display_video_with_overlay_ads' goal list
  aws_available,      \* VideoPlayerWithAds.aws_available
  event_text,         \* the description given to extract_player_from_event
  response,           \* what the recognizer did in that call
  player_key,         \* what extract_player_from_event returned
  raised,             \* whether an exception left extract_player_from_event
  merchandise,        \* the key of the merchandise_db entry the advertisement shows
  shared,             \* an analyzer object that several requests use
  requests,           \* each request's analyze_commentary call on it: position and locals
  transcribe_client,  \* VideoProcessor.transcribe_client (and s3_client, set with it)
  audio_path,         \* process_video_file's locals
  job_name,
  wait_time,
  poll_result,        \* 'result', the last status query's result
  audio_file,         \* whether the temporary audio file exists
  polls,              \* how many times the job status was queried
  messages,           \* the st.error and st.warning messages shown
  video_result,       \* what process_video_file returned
  overlay_player,     \* the method whose HTML page is open
  goalAds,            \* the page's goalAds: the trigger time of each ad, in seconds
  currentTime,        \* Math.floor(video.currentTime)
  paused,             \* video.paused
  shownAds,           \* the indices whose adKey is in shownAds
  currentAd,          \* currentAd / currentGoalAd: the place of the ad in goalAds, or NoAd
  adTimeout,          \* whether the auto-hide timer is pending
  display,            \* the overlay's style.display
  hide_timers,        \* how many 500 ms timers of hideAd are pending
  loads,              \* how many loadeddata events were handled
  demo_timers,        \* the pending timers of the loadeddata handler: outer, inner
  shows,              \* how many times showGoalAd ran for each ad
  goal_ads,           \* the goal_ads list an ad builder made
  ad_player_keys,     \* what extract_player_from_event returned for each of its events
  builder_raised      \* whether an exception left the builder's loop

vars ==
  <<hashseed, pc, analyzer, commentary_text, called, timestamps, events, entities,
    analysis_results, formatted_results, previous_results, runs, goal_events,
    aws_available, event_text, response, player_key, raised, merchandise,
    shared, requests,
    transcribe_client, audio_path, job_name, wait_time, poll_result, audio_file, polls,
    messages, video_result,
    overlay_player, goalAds, currentTime, paused, shownAds, currentAd, adTimeout, display,
    hide_timers, loads, demo_timers, shows,
    goal_ads, ad_player_keys, builder_raised>>

\* the state of the analysis handlers, and of the advertisement handler
analysis_vars ==
  <<analyzer, commentary_text, called, timestamps, events, entities,
    analysis_results, formatted_results, previous_results, runs, goal_events>>
player_vars == <<aws_available, event_text, response, player_key, raised, merchandise>>
request_vars == <<shared, requests>>
video_vars ==
  <<transcribe_client, audio_path, job_name, wait_time, poll_result, audio_file, polls,
    messages, video_result>>
page_vars ==
  <<overlay_player, goalAds, currentTime, paused, shownAds, currentAd, adTimeout, display,
    hide_timers, loads, demo_timers, shows>>
ads_vars == <<goal_ads, ad_player_keys, builder_raised>>

Init ==
  /\ hashseed \in 0..MaxHashSeed
  /\ pc = "start"
  /\ analyzer = None
  /\ commentary_text = None
  /\ called = {}
  /\ timestamps = <<>>
  /\ events = <<>>
  /\ entities = <<>>
  /\ analysis_results = <<>>
  /\ formatted_results = <<>>
  /\ previous_results = <<>>
  /\ runs = 0
  /\ goal_events = <<>>
  /\ aws_available = FALSE
  /\ event_text = None
  /\ response = NotCalled
  /\ player_key = None
  /\ raised = FALSE
  /\ merchandise = None
  /\ shared = None
  /\ requests = [r \in Requests |-> Idle]
  /\ transcribe_client = None
  /\ audio_path = None
  /\ job_name = None
  /\ wait_time = 0
  /\ poll_result = NoResult
  /\ audio_file = FALSE
  /\ polls = 0
  /\ messages = <<>>
  /\ video_result = NoResult
  /\ overlay_player = None
  /\ goalAds = <<>>
  /\ currentTime = 0
  /\ paused = TRUE
  /\ shownAds = {}
  /\ currentAd = NoAd
  /\ adTimeout = FALSE
  /\ display = "none"
  /\ hide_timers = 0
  /\ loads = 0
  /\ demo_timers = [outer |-> 0, inner |-> 0]
  /\ shows = <<>>
  /\ goal_ads = <<>>
  /\ ad_player_keys = <<>>
  /\ builder_raised = FALSE

\* Mutant: the rows are appended to the rows of the call before.
analyze_commentary_accumulating(self, text) ==
  /\ commentary_text' = text
  /\ called' = {"extract_timestamps", "extract_events",
                 "extract_players_and_entities", "find_nearby_elements"}
  /\ timestamps' = extract_timestamps(text)
  /\ events' = extract_events(self, text)
  /\ entities' = extract_players_and_entities(self, text)
  /\ analysis_results' = find_nearby_elements(timestamps', events', entities', text, window)
  /\ formatted_results' = formatted_results \o format_results(analysis_results', hashseed)

\* analyzer.analyze_commentary(text): the locals and the returned rows
\* Mutant: no early return for a blank text.
analyze_commentary_no_short_circuit(self, text) ==
  /\ commentary_text' = text
  /\ called' = {"extract_timestamps", "extract_events",
                "extract_players_and_entities", "find_nearby_elements"}
  /\ timestamps' = extract_timestamps(text)
  /\ events' = extract_events(self, text)
  /\ entities' = extract_players_and_entities(self, text)
  /\ analysis_results' = find_nearby_elements(timestamps', events', entities', text, window)
  /\ formatted_results' = format_results(analysis_results', hashseed)

analyze_commentary(self, text) ==
  /\ commentary_text' = text
  /\ IF strip(text) = ""
       THEN /\ called' = {}
            /\ timestamps' = <<>>
            /\ events' = <<>>
            /\ entities' = <<>>
            /\ analysis_results' = <<>>
            /\ formatted_results' = <<>>
       ELSE /\ called' = {"extract_timestamps", "extract_events",
                          "extract_players_and_entities", "find_nearby_elements"}
            /\ timestamps' = extract_timestamps(text)
            /\ events' = extract_events(self, text)
            /\ entities' = extract_players_and_entities(self, text)
            /\ analysis_results' = find_nearby_elements(timestamps', events', entities', text, window)
            /\ formatted_results' = format_results(analysis_results', hashseed)

\* main: the "Analyze Commentary" button
main ==
  /\ pc = "start"
  /\ \E input \in MainInputs, raises \in BOOLEAN :
       /\ analyzer' = SoccerAnalyzer(input[1])
       /\ IF strip(input[2]) = ""
            THEN /\ pc' = "main_warning"
                 /\ UNCHANGED <<commentary_text, called, timestamps, events, entities,
                                analysis_results, formatted_results>>
            ELSE IF raises
              \* except Exception as e: st.error(...)
              THEN /\ pc' = "main_error"
                   /\ UNCHANGED <<commentary_text, called, timestamps, events, entities,
                                  analysis_results, formatted_results>>
              ELSE /\ pc' = "main_done"
                   /\ analyze_commentary(analyzer', input[2])
  /\ runs' = 1
  /\ UNCHANGED <<hashseed, previous_results, goal_events>>
  /\ UNCHANGED player_vars
  /\ UNCHANGED request_vars
  /\ UNCHANGED page_vars
  /\ UNCHANGED ads_vars
  /\ UNCHANGED video_vars

\* Streamlit runs the script again with the same widget values: a new analyzer
\* of the same language analyzes the same text.
main_rerun ==
  /\ pc = "main_done"
  /\ runs = 1
  /\ runs' = 2
  /\ previous_results' = formatted_results
  /\ analyzer' = SoccerAnalyzer(analyzer.language)
  /\ analyze_commentary(analyzer', commentary_text)
  /\ UNCHANGED <<hashseed, pc, goal_events>>
  /\ UNCHANGED player_vars
  /\ UNCHANGED request_vars
  /\ UNCHANGED page_vars
  /\ UNCHANGED ads_vars
  /\ UNCHANGED video_vars

isinstance_dict(value) == DOMAIN value # 1..Len(value)

\* the events display_video_with_overlay_ads keeps from a dict result
RECURSIVE GoalEventsOf(_)
GoalEventsOf(evs) ==
  IF evs = <<>> THEN <<>>
  ELSE (IF Contains(lower(Head(evs).type), "goal") \/ Contains(lower(Head(evs).type), "score")
          THEN <<Head(evs)>> ELSE <<>>)
         \o GoalEventsOf(Tail(evs))

\* The call of analyze_commentary stands in no try block, here or at the call
\* of this method in main: an exception raised by it leaves both.
display_video_with_overlay_ads ==
  /\ pc = "start"
  /\ \E input \in OverlayInputs, raises \in BOOLEAN :
       /\ analyzer' = SoccerAnalyzer(input[1])
       /\ IF raises
            THEN /\ pc' = "overlay_uncaught"
                 /\ UNCHANGED <<commentary_text, called, timestamps, events, entities,
                                analysis_results, formatted_results, goal_events>>
            ELSE /\ analyze_commentary(analyzer', input[2])
                 /\ LET analysis_result == formatted_results'
                        detected ==
                          IF analysis_result # <<>> /\ isinstance_dict(analysis_result)
                               /\ "events" \in DOMAIN analysis_result
                            THEN GoalEventsOf(analysis_result["events"])
                            ELSE <<>>
                    IN goal_events' = IF detected = <<>> THEN demo_goals ELSE detected
                 /\ pc' = "overlay_done"
  /\ runs' = 1
  /\ UNCHANGED <<hashseed, previous_results>>
  /\ UNCHANGED player_vars
  /\ UNCHANGED request_vars
  /\ UNCHANGED page_vars
  /\ UNCHANGED ads_vars
  /\ UNCHANGED video_vars

Next == main \/ main_rerun \/ display_video_with_overlay_ads

Spec == Init /\ [][Next]_vars

\* VideoPlayerWithAds.__init__: the AWS clients are kept if boto3 was imported
\* and creating them raised nothing
VideoPlayerWithAds_init ==
  /\ pc = "start"
  /\ \E AWS_AVAILABLE \in BOOLEAN, client_raises \in BOOLEAN :
       aws_available' = (AWS_AVAILABLE /\ ~client_raises)
  /\ pc' = "player_ready"
  /\ UNCHANGED <<hashseed, event_text, response, player_key, raised, merchandise>>
  /\ UNCHANGED analysis_vars
  /\ UNCHANGED request_vars
  /\ UNCHANGED page_vars
  /\ UNCHANGED ads_vars
  /\ UNCHANGED video_vars

\* the "Show Goal Advertisement" button of display_video_with_overlay_ads
show_goal_advertisement ==
  /\ pc = "player_ready"
  /\ \E description \in EventTexts, outcome \in RecognizerOutcomes :
       \E result \in {extract_player_from_event([aws_available |-> aws_available],
                                                description, outcome)} :
          /\ event_text' = description
          /\ response' = IF aws_available THEN outcome ELSE NotCalled
          /\ raised' = result.raised
          /\ player_key' = result.returned
          /\ IF result.raised
               THEN /\ merchandise' = merchandise
                    /\ pc' = "ad_uncaught"
               ELSE /\ merchandise' = IF result.returned # "None" THEN result.returned
                                                                  ELSE "messi"
                    /\ pc' = "ad_shown"
  /\ UNCHANGED <<hashseed, aws_available>>
  /\ UNCHANGED analysis_vars
  /\ UNCHANGED request_vars
  /\ UNCHANGED page_vars
  /\ UNCHANGED ads_vars
  /\ UNCHANGED video_vars

NextPlayer == VideoPlayerWithAds_init \/ show_goal_advertisement

SpecPlayer == Init /\ [][NextPlayer]_vars

\* the two functions that build a player page with goal advertisements
OverlayPlayers == {"create_video_overlay_html", "create_overlay_video_container"}

\* the loop of create_video_overlay_html and of create_overlay_video_container
\* that builds goal_ads from goal_events
build_goal_ads ==
  /\ pc = "player_ready"
  /\ \E builder \in OverlayPlayers, list \in GoalEventLists, outcome \in BuilderOutcomes :
       \E built \in {[i \in 1..Len(list) |->
                        goal_ad(builder, list[i], i - 1,
                                extract_player_from_event([aws_available |-> aws_available],
                                                          get(list[i], "description", ""),
                                                          outcome))]} :
         /\ goal_events' = list
         /\ overlay_player' = builder
         /\ builder_raised' = \E i \in 1..Len(list) : built[i].raised
         /\ goal_ads' = IF builder_raised' THEN <<>> ELSE [i \in 1..Len(list) |-> built[i].ad]
         /\ ad_player_keys' = [i \in 1..Len(list) |-> built[i].player_key]
         /\ pc' = IF builder_raised' THEN "builder_uncaught" ELSE "ads_built"
  /\ UNCHANGED <<analyzer, commentary_text, called, timestamps, events, entities,
                 analysis_results, formatted_results, previous_results, runs>>
  /\ UNCHANGED <<goalAds, currentTime, paused, shownAds, currentAd, adTimeout, display,
                 hide_timers, loads, demo_timers, shows>>
  /\ UNCHANGED hashseed
  /\ UNCHANGED player_vars
  /\ UNCHANGED request_vars
  /\ UNCHANGED video_vars

NextAds == VideoPlayerWithAds_init \/ build_goal_ads

SpecAds == Init /\ [][NextAds]_vars

\* what analyze_commentary returns for a text when no other call runs
RunAlone(self, text, seed) ==
  IF strip(text) = "" THEN <<>>
  ELSE format_results(
         find_nearby_elements(extract_timestamps(text), extract_events(self, text),
                              extract_players_and_entities(self, text), text, window),
         seed)

\* Mutant: analyze_commentary takes the language from the text and stores the
\* tables of that language in the object before it extracts.
self_after_reselecting(self, method, text) ==
  IF method = "analyze_commentary"
    THEN SoccerAnalyzer(IF Contains(text, "¡") THEN "es" ELSE "en")
    ELSE self

\* the analyzer object after a method of it has run on a text: analyze_commentary,
\* the three extractors and find_nearby_elements assign to no attribute of self
self_after(self, method, text) == self

\* the methods analyze_commentary calls, in the order it calls them
next_method(method) ==
  CASE method = "analyze_commentary" -> "extract_timestamps"
    [] method = "extract_timestamps" -> "extract_events"
    [] method = "extract_events" -> "extract_players_and_entities"
    [] method = "extract_players_and_entities" -> "find_nearby_elements"
    [] method = "find_nearby_elements" -> "format"
    [] method = "format" -> "returned"

\* one analyzer object is built and handed to the requests
shared_analyzer ==
  /\ pc = "start"
  /\ \E language \in {"en", "es"} : shared' = SoccerAnalyzer(language)
  /\ pc' = "shared_ready"
  /\ UNCHANGED <<hashseed, requests>>
  /\ UNCHANGED analysis_vars
  /\ UNCHANGED player_vars
  /\ UNCHANGED video_vars
  /\ UNCHANGED page_vars
  /\ UNCHANGED ads_vars

\* request r calls shared.analyze_commentary(text); the requests are numbered
\* in the order of their calls
request_call(r) ==
  /\ pc = "shared_ready"
  /\ requests[r].pc = "idle"
  /\ \A earlier \in 1..(r - 1) : requests[earlier].pc # "idle"
  /\ \E text \in RequestTexts :
       requests' = [requests EXCEPT ![r] = [Idle EXCEPT !.pc = "analyze_commentary",
                                                        !.self = shared,
                                                        !.text = text,
                                                        !.alone = RunAlone(shared, text, hashseed)]]
  /\ UNCHANGED <<hashseed, pc, shared>>
  /\ UNCHANGED analysis_vars
  /\ UNCHANGED player_vars
  /\ UNCHANGED video_vars
  /\ UNCHANGED page_vars
  /\ UNCHANGED ads_vars

\* request r runs the next part of its analyze_commentary call; self is the
\* shared object as it is now
request_step(r) ==
  /\ pc = "shared_ready"
  /\ requests[r].pc \notin {"idle", "returned"}
  /\ \E request \in {requests[r]} :
       \E self \in {self_after(shared, request.pc, request.text)} :
         /\ shared' = self
         /\ requests' = [requests EXCEPT ![r] =
              CASE request.pc = "analyze_commentary" ->
                     IF strip(request.text) = ""
                       THEN [request EXCEPT !.pc = "returned", !.returned = <<>>]
                       ELSE [request EXCEPT !.pc = next_method(request.pc)]
                [] request.pc = "extract_timestamps" ->
                     [request EXCEPT !.pc = next_method(request.pc),
                                     !.timestamps = extract_timestamps(request.text)]
                [] request.pc = "extract_events" ->
                     [request EXCEPT !.pc = next_method(request.pc),
                                     !.events = extract_events(self, request.text)]
                [] request.pc = "extract_players_and_entities" ->
                     [request EXCEPT !.pc = next_method(request.pc),
                                     !.entities = extract_players_and_entities(self, request.text)]
                [] request.pc = "find_nearby_elements" ->
                     [request EXCEPT !.pc = next_method(request.pc),
                                     !.analysis_results =
                                        find_nearby_elements(request.timestamps, request.events,
                                                             request.entities, request.text, window)]
                [] request.pc = "format" ->
                     [request EXCEPT !.pc = next_method(request.pc),
                                     !.returned = format_results(request.analysis_results, hashseed)]]
  /\ UNCHANGED <<hashseed, pc>>
  /\ UNCHANGED analysis_vars
  /\ UNCHANGED player_vars
  /\ UNCHANGED video_vars
  /\ UNCHANGED page_vars
  /\ UNCHANGED ads_vars

NextShared ==
  \/ shared_analyzer
  \/ \E r \in Requests : request_call(r)
  \/ \E r \in Requests : request_step(r)

SpecShared == Init /\ [][NextShared]_vars

(***************************************************************************)
(* VideoProcessor.process_video_file: cloud transcription with polling      *)
(***************************************************************************)
max_wait_time == 300

\* time.sleep(10); wait_time += 10
poll_interval == 10

\* what transcribe_client.get_transcription_job can do: raise, or report a
\* TranscriptionJobStatus
JobOutcomes == {"raises", "COMPLETED", "FAILED", "IN_PROGRESS", "QUEUED"}

\* what the sleep and the progress update of the loop can do: return, raise an
\* Exception, or raise a BaseException that is no Exception (KeyboardInterrupt,
\* SystemExit, or the script-control exception by which Streamlit stops a run
\* inside an st call), which "except Exception" does not catch
Raises == {"no", "Exception", "BaseException"}

get_transcription_result(self, job, outcome) ==
  IF self.transcribe_client = None THEN NoResult
  ELSE CASE outcome = "raises" -> [status |-> "error", error |-> "str(e)"]
         [] outcome = "COMPLETED" ->
              [status |-> "completed",
               transcript |-> "Transcription completed. Download the full transcript from AWS console for detailed analysis.",
               transcript_uri |-> "TranscriptFileUri"]
         [] outcome = "FAILED" -> [status |-> "failed", error |-> "FailureReason"]
         [] OTHER -> [status |-> "in_progress", progress |-> outcome]

\* Mutant: the loop runs while wait_time <= max_wait_time.
keep_polling_inclusive(waited) == waited <= max_wait_time

\* while wait_time < max_wait_time
keep_polling(waited) == waited < max_wait_time

\* result and result['status'] == 'completed'
is_completed(res) == res # NoResult /\ res.status = "completed"

\* Mutant: a status query that raised counts as a failed job.
is_failed_or_error(res) == res # NoResult /\ res.status \in {"failed", "error"}

\* result and result['status'] == 'failed'
is_failed(res) == res # NoResult /\ res.status = "failed"

\* if audio_path and os.path.exists(audio_path): os.unlink(audio_path)
unlink_if_exists(path, exists) == IF path # None /\ exists THEN FALSE ELSE exists

\* process_video_file up to the end of extract_audio_from_video, on a new
\* VideoProcessor: the clients exist if credentials were found; the extraction
\* returns the path of the temporary audio file, or None after a failed ffmpeg
\* run (the file stays) or after an exception
process_video_file ==
  /\ pc = "start"
  /\ \E credentials \in BOOLEAN :
       transcribe_client' = IF credentials THEN "client" ELSE None
  /\ \E extraction \in {"ok", "ffmpeg failed", "raised"} :
       /\ audio_path' = IF extraction = "ok" THEN "temp_audio.wav" ELSE None
       /\ audio_file' = (extraction # "raised")
       /\ messages' = IF extraction = "ok" THEN messages
                      ELSE Append(messages, "error: extracting audio")
       /\ pc' = IF extraction = "ok" THEN "video_extracted" ELSE "video_returned"
  /\ UNCHANGED <<hashseed, job_name, wait_time, poll_result, polls, video_result>>
  /\ UNCHANGED analysis_vars
  /\ UNCHANGED player_vars
  /\ UNCHANGED request_vars
  /\ UNCHANGED page_vars
  /\ UNCHANGED ads_vars

\* job_name = self.upload_to_s3_and_transcribe(audio_path), and the return
\* when it gave none
upload_to_s3_and_transcribe ==
  /\ pc = "video_extracted"
  /\ \E upload_raises \in BOOLEAN :
       /\ job_name' = IF transcribe_client = None \/ upload_raises THEN None
                      ELSE "soccer-transcription-1"
       /\ messages' = IF transcribe_client = None
                        THEN Append(messages, "error: AWS services not initialized")
                      ELSE IF upload_raises
                        THEN Append(messages, "error: starting transcription")
                      ELSE messages
  /\ IF job_name' = None
       THEN /\ audio_file' = unlink_if_exists(audio_path, audio_file)
            /\ pc' = "video_returned"
       ELSE /\ audio_file' = audio_file
            /\ pc' = "video_polling"
  /\ wait_time' = 0
  /\ UNCHANGED <<hashseed, transcribe_client, audio_path, poll_result, polls, video_result>>
  /\ UNCHANGED analysis_vars
  /\ UNCHANGED player_vars
  /\ UNCHANGED request_vars
  /\ UNCHANGED page_vars
  /\ UNCHANGED ads_vars

\* one iteration of the polling loop
poll ==
  /\ pc = "video_polling"
  /\ keep_polling(wait_time)
  /\ \E outcome \in JobOutcomes, raises \in Raises :
       /\ poll_result' = get_transcription_result([transcribe_client |-> transcribe_client],
                                                  job_name, outcome)
       /\ polls' = polls + 1
       /\ IF is_completed(poll_result')
            THEN /\ audio_file' = unlink_if_exists(audio_path, audio_file)
                 /\ video_result' = poll_result'
                 /\ pc' = "video_returned"
                 /\ UNCHANGED <<wait_time, messages>>
          ELSE IF is_failed(poll_result')
            THEN /\ messages' = Append(messages, "error: Transcription failed")
                 /\ audio_file' = unlink_if_exists(audio_path, audio_file)
                 /\ video_result' = NoResult
                 /\ pc' = "video_returned"
                 /\ UNCHANGED wait_time
          ELSE IF raises = "no"
            THEN /\ wait_time' = wait_time + poll_interval
                 /\ UNCHANGED <<pc, audio_file, video_result, messages>>
          ELSE IF raises = "Exception"
            \* except Exception as e
            THEN /\ messages' = Append(messages, "error: processing video")
                 /\ audio_file' = unlink_if_exists(audio_path, audio_file)
                 /\ video_result' = NoResult
                 /\ pc' = "video_returned"
                 /\ UNCHANGED wait_time
            \* no handler: the exception leaves process_video_file
            ELSE /\ pc' = "video_raised"
                 /\ UNCHANGED <<wait_time, audio_file, video_result, messages>>
  /\ UNCHANGED <<hashseed, transcribe_client, audio_path, job_name>>
  /\ UNCHANGED analysis_vars
  /\ UNCHANGED player_vars
  /\ UNCHANGED request_vars
  /\ UNCHANGED page_vars
  /\ UNCHANGED ads_vars

\* the loop ended by its condition
polling_timeout ==
  /\ pc = "video_polling"
  /\ ~keep_polling(wait_time)
  /\ messages' = Append(messages, "warning: taking longer than expected")
  /\ audio_file' = unlink_if_exists(audio_path, audio_file)
  /\ video_result' = [status |-> "timeout", job_name |-> job_name,
                      message |-> "Transcription job started but not completed within timeout. Check AWS console."]
  /\ pc' = "video_returned"
  /\ UNCHANGED <<hashseed, transcribe_client, audio_path, job_name, wait_time, poll_result, polls>>
  /\ UNCHANGED analysis_vars
  /\ UNCHANGED player_vars
  /\ UNCHANGED request_vars
  /\ UNCHANGED page_vars
  /\ UNCHANGED ads_vars

NextVideo == process_video_file \/ upload_to_s3_and_transcribe \/ poll \/ polling_timeout

\* process_video_file runs in one thread and every call it makes returns or
\* raises, so a step that can be taken is taken
SpecVideo == Init /\ [][NextVideo]_vars /\ WF_vars(NextVideo)

\* the goalAds of a page, by trigger time: those of the demo goals ('0:30',
\* '1:45'), two goals whose windows overlap, two goals 6 s apart, and none
PageGoalAds == {<<30, 105>>, <<5, 7>>, <<5, 11>>, <<>>}

\* the playback positions a timeupdate can report: the edges of each window
Instants(ads) ==
  {0} \cup UNION {{ads[i] - 1, ads[i], ads[i] + 2, ads[i] + 3, ads[i] + 4} : i \in 1..Len(ads)}

\* currentTime <= ad.time + 2 in create_video_overlay_html, + 3 in
\* create_overlay_video_container
trigger_window(player) == IF player = "create_video_overlay_html" THEN 2 ELSE 3

\* the ads a timeupdate at time t shows: inside their window and not in shownAds
due_ads(player, ads, t, shown) ==
  {i \in 1..Len(ads) : t >= ads[i] /\ t <= ads[i] + trigger_window(player) /\ i \notin shown}

\* showGoalAd for each ad of a non-empty set, in the order of goalAds.  (The
\* text contents and the transform of the overlay are left out.)
showGoalAd(indexes) ==
  /\ currentAd' = CHOOSE i \in indexes : \A j \in indexes : j <= i
  /\ display' = "block"
  /\ adTimeout' = TRUE
  /\ shows' = [i \in 1..Len(shows) |-> IF i \in indexes THEN shows[i] + 1 ELSE shows[i]]

\* hideGoalAd hides the overlay at once; hideAd starts a timer of 500 ms that
\* hides it
hideAd ==
  /\ IF overlay_player = "create_overlay_video_container"
       THEN /\ hide_timers < MaxPending
            /\ hide_timers' = hide_timers + 1
            /\ display' = display
       ELSE /\ display' = "none"
            /\ hide_timers' = hide_timers
  /\ currentAd' = NoAd
  /\ adTimeout' = FALSE

\* the page of one of the two methods is opened
page_load ==
  /\ pc = "start"
  /\ pc' = "page"
  /\ \E player \in OverlayPlayers, ads \in PageGoalAds :
       /\ overlay_player' = player
       /\ goalAds' = ads
       /\ shows' = [i \in 1..Len(ads) |-> 0]
  /\ UNCHANGED <<hashseed, currentTime, paused, shownAds, currentAd, adTimeout, display,
                 hide_timers, loads, demo_timers>>
  /\ UNCHANGED analysis_vars
  /\ UNCHANGED player_vars
  /\ UNCHANGED request_vars
  /\ UNCHANGED video_vars
  /\ UNCHANGED ads_vars

\* the timeupdate listener; the event comes with playback, a seek or a replay
timeupdate ==
  /\ pc = "page"
  /\ \E t \in Instants(goalAds) :
       /\ currentTime' = t
       /\ \E due \in {due_ads(overlay_player, goalAds, t, shownAds)} :
            /\ shownAds' = shownAds \cup due
            /\ IF due = {} THEN UNCHANGED <<currentAd, display, adTimeout, shows>>
               ELSE showGoalAd(due)
  /\ UNCHANGED <<hashseed, pc, overlay_player, goalAds, paused, hide_timers, loads, demo_timers>>
  /\ UNCHANGED analysis_vars
  /\ UNCHANGED player_vars
  /\ UNCHANGED request_vars
  /\ UNCHANGED video_vars
  /\ UNCHANGED ads_vars

play ==
  /\ pc = "page"
  /\ paused
  /\ paused' = FALSE
  /\ UNCHANGED <<hashseed, pc, overlay_player, goalAds, currentTime, shownAds, currentAd,
                 adTimeout, display, hide_timers, loads, demo_timers, shows>>
  /\ UNCHANGED analysis_vars
  /\ UNCHANGED player_vars
  /\ UNCHANGED request_vars
  /\ UNCHANGED video_vars
  /\ UNCHANGED ads_vars

\* video.addEventListener('pause', hideAd)
pause ==
  /\ pc = "page"
  /\ ~paused
  /\ paused' = TRUE
  /\ hideAd
  /\ UNCHANGED <<hashseed, pc, overlay_player, goalAds, currentTime, shownAds, loads,
                 demo_timers, shows>>
  /\ UNCHANGED analysis_vars
  /\ UNCHANGED player_vars
  /\ UNCHANGED request_vars
  /\ UNCHANGED video_vars
  /\ UNCHANGED ads_vars

\* the auto-hide timer of showGoalAd fires
auto_hide ==
  /\ pc = "page"
  /\ adTimeout
  /\ hideAd
  /\ UNCHANGED <<hashseed, pc, overlay_player, goalAds, currentTime, paused, shownAds, loads,
                 demo_timers, shows>>
  /\ UNCHANGED analysis_vars
  /\ UNCHANGED player_vars
  /\ UNCHANGED request_vars
  /\ UNCHANGED video_vars
  /\ UNCHANGED ads_vars

\* the close button, and the buy and save buttons (which act if an ad is
\* current), of a visible overlay
overlay_button ==
  /\ pc = "page"
  /\ display = "block"
  /\ \E button \in {"close", "buy", "save"} : button = "close" \/ currentAd # NoAd
  /\ hideAd
  /\ UNCHANGED <<hashseed, pc, overlay_player, goalAds, currentTime, paused, shownAds, loads,
                 demo_timers, shows>>
  /\ UNCHANGED analysis_vars
  /\ UNCHANGED player_vars
  /\ UNCHANGED request_vars
  /\ UNCHANGED video_vars
  /\ UNCHANGED ads_vars

\* a 500 ms timer of hideAd fires: adOverlay.style.display = 'none'
hide_timer_fires ==
  /\ pc = "page"
  /\ hide_timers > 0
  /\ hide_timers' = hide_timers - 1
  /\ display' = "none"
  /\ UNCHANGED <<hashseed, pc, overlay_player, goalAds, currentTime, paused, shownAds,
                 currentAd, adTimeout, loads, demo_timers, shows>>
  /\ UNCHANGED analysis_vars
  /\ UNCHANGED player_vars
  /\ UNCHANGED request_vars
  /\ UNCHANGED video_vars
  /\ UNCHANGED ads_vars

\* the loadeddata listener of create_overlay_video_container starts its timer
loadeddata ==
  /\ pc = "page"
  /\ overlay_player = "create_overlay_video_container"
  /\ loads < MaxLoads
  /\ loads' = loads + 1
  /\ demo_timers' = [demo_timers EXCEPT !.outer = @ + 1]
  /\ UNCHANGED <<hashseed, pc, overlay_player, goalAds, currentTime, paused, shownAds,
                 currentAd, adTimeout, display, hide_timers, shows>>
  /\ UNCHANGED analysis_vars
  /\ UNCHANGED player_vars
  /\ UNCHANGED request_vars
  /\ UNCHANGED video_vars
  /\ UNCHANGED ads_vars

\* its timer of 1 s fires: with a goal ad, the timer of 5 s is started
demo_outer_timer ==
  /\ pc = "page"
  /\ demo_timers.outer > 0
  /\ demo_timers' = [outer |-> demo_timers.outer - 1,
                     inner |-> IF Len(goalAds) > 0 THEN demo_timers.inner + 1
                               ELSE demo_timers.inner]
  /\ UNCHANGED <<hashseed, pc, overlay_player, goalAds, currentTime, paused, shownAds,
                 currentAd, adTimeout, display, hide_timers, loads, shows>>
  /\ UNCHANGED analysis_vars
  /\ UNCHANGED player_vars
  /\ UNCHANGED request_vars
  /\ UNCHANGED video_vars
  /\ UNCHANGED ads_vars

\* the timer of 5 s fires: showGoalAd(goalAds[0])
demo_inner_timer ==
  /\ pc = "page"
  /\ demo_timers.inner > 0
  /\ demo_timers' = [demo_timers EXCEPT !.inner = @ - 1]
  /\ showGoalAd({1})
  /\ UNCHANGED <<hashseed, pc, overlay_player, goalAds, currentTime, paused, shownAds,
                 hide_timers, loads>>
  /\ UNCHANGED analysis_vars
  /\ UNCHANGED player_vars
  /\ UNCHANGED request_vars
  /\ UNCHANGED video_vars
  /\ UNCHANGED ads_vars

NextPage ==
  \/ page_load
  \/ timeupdate
  \/ play
  \/ pause
  \/ auto_hide
  \/ overlay_button
  \/ hide_timer_fires
  \/ loadeddata
  \/ demo_outer_timer
  \/ demo_inner_timer

SpecPage == Init /\ [][NextPage]_vars

(***************************************************************************)
(* Properties                                                              *)
(***************************************************************************)
\* an analyze_commentary call has run its extraction
Analyzed == pc \in {"main_done", "overlay_done"} /\ called # {}

Elements(list) == {list[i] : i \in 1..Len(list)}

\* the tags a row shows
TagsOf(row) == IF row.Tags = "General mention" THEN {} ELSE Elements(split(row.Tags, ", "))

\* C1: find_nearby_elements attaches an event or entity occurrence X to the
\* record of timestamp T if and only if |X.start - T.start| <= 50 or
\* |X.end - T.end| <= 50 (so at distance exactly 50 it is attached, and at 51
\* on both boundaries it is not).
C1_WindowAttachment ==
  Analyzed =>
    /\ Len(analysis_results) = Len(timestamps)
    /\ \A i \in 1..Len(timestamps) :
         LET T == timestamps[i]
             InWindow(X) == abs(X.start - T.start) <= 50 \/ abs(X.end - T.end) <= 50
         IN /\ \A X \in Elements(events) :
                 (X \in Elements(analysis_results[i].events)) <=> InWindow(X)
            /\ \A X \in Elements(entities) :
                 (X \in Elements(analysis_results[i].entities)) <=> InWindow(X)
            /\ Elements(analysis_results[i].events) \subseteq Elements(events)
            /\ Elements(analysis_results[i].entities) \subseteq Elements(entities)

\* C1 witness: an event that starts exactly 50 characters before a timestamp and
\* ends more than 50 before its end is attached to it.
C1_Witness ==
  /\ Analyzed
  /\ \E i \in 1..Len(timestamps) : \E X \in Elements(analysis_results[i].events) :
       /\ timestamps[i].start - X.start = 50
       /\ abs(X.end - timestamps[i].end) > 50

\* C2: on the English example the analysis returns two rows, the first at 23'
\* tagged goal, assist, Messi and Neymar, the second at 45' tagged yellow_card
\* and Sergio Ramos or Ramos.
C2_EnglishScenarioRows ==
  (pc = "main_done" /\ commentary_text = EnglishScenario /\ analyzer.language = "en") =>
    /\ Len(formatted_results) = 2
    /\ formatted_results[1].Time = "23'"
    /\ {"goal", "assist", "Messi", "Neymar"} \subseteq TagsOf(formatted_results[1])
    /\ formatted_results[2].Time = "45'"
    /\ "yellow_card" \in TagsOf(formatted_results[2])
    /\ {"Sergio Ramos", "Ramos"} \cap TagsOf(formatted_results[2]) # {}

\* C3: the rows are in the order in which their timestamps occur in the text.
C3_RowsInTextOrder ==
  Analyzed =>
    /\ Len(formatted_results) = Len(timestamps)
    /\ \A i, j \in 1..Len(timestamps) : i < j => timestamps[i].start <= timestamps[j].start

\* the surface form of a timestamp text: 1 MM:SS, 2 HH:MM:SS, 3 N', 4 N min
Colons(raw) == Cardinality({p \in 0..(Len(raw) - 1) : CharAt(raw, p) = ":"})

SurfaceForm(raw) ==
  IF Colons(raw) = 1 THEN 1
  ELSE IF Colons(raw) = 2 THEN 2
  ELSE IF CharAt(raw, Len(raw) - 1) = "'" THEN 3
  ELSE 4

\* C4: the timestamps come form after form (MM:SS, HH:MM:SS, N', N min), within
\* a form by increasing offset and without overlap, and the correlated records
\* and the rows keep exactly this order.
C4_PatternDeclarationOrder ==
  Analyzed =>
    /\ \A i, j \in 1..Len(timestamps) : i < j =>
         /\ SurfaceForm(timestamps[i].raw) <= SurfaceForm(timestamps[j].raw)
         /\ SurfaceForm(timestamps[i].raw) = SurfaceForm(timestamps[j].raw)
              => timestamps[i].end <= timestamps[j].start
    /\ Len(analysis_results) = Len(timestamps)
    /\ Len(formatted_results) = Len(timestamps)
    /\ \A i \in 1..Len(timestamps) :
         /\ analysis_results[i].timestamp = timestamps[i].raw
         /\ formatted_results[i].Time = timestamps[i].raw

\* C4 witness: rows of two forms, where the row of the earlier form comes first
\* although its timestamp stands later in the text.
C4_Witness ==
  /\ Analyzed
  /\ \E i, j \in 1..Len(timestamps) :
       /\ i < j
       /\ SurfaceForm(timestamps[i].raw) < SurfaceForm(timestamps[j].raw)
       /\ timestamps[i].start > timestamps[j].start
       /\ formatted_results[i].Time = timestamps[i].raw

\* the distinct elements of a list, each at its first appearance
RECURSIVE FirstAppearances(_, _)
FirstAppearances(list, seen) ==
  IF list = <<>> THEN <<>>
  ELSE (IF Head(list) \in seen THEN <<>> ELSE <<Head(list)>>)
         \o FirstAppearances(Tail(list), seen \cup {Head(list)})

\* the event tags C5 expects in row i
ExpectedEventTags(i) ==
  FirstAppearances([k \in 1..Len(analysis_results[i].events) |-> analysis_results[i].events[k].type], {})

\* C5: in every row the event tags are unique and stand in the order of first
\* appearance among the events matched to the timestamp.
C5_EventTagsInFirstAppearanceOrder ==
  Analyzed =>
    \A i \in 1..Len(formatted_results) :
      ExpectedEventTags(i) # <<>> =>
        SubSeq(split(formatted_results[i].Tags, ", "), 1, Len(ExpectedEventTags(i)))
          = ExpectedEventTags(i)

C7_OneRowPerOccurrence ==
  Analyzed =>
    /\ Len(formatted_results) = Len(timestamps)
    /\ \A i \in 1..Len(timestamps) : formatted_results[i].Time = timestamps[i].raw
    /\ \A i \in 1..Len(timestamps) :
         (\A X \in Elements(events) \cup Elements(entities) :
            abs(X.start - timestamps[i].start) > 50 /\ abs(X.end - timestamps[i].end) > 50)
           => formatted_results[i].Tags = "General mention"

\* C7 witness: two occurrences of the same timestamp text, each with a row of
\* its own and nothing nearby.
C7_Witness ==
  /\ Analyzed
  /\ Len(timestamps) = 2
  /\ timestamps[1].raw = timestamps[2].raw
  /\ timestamps[1].start # timestamps[2].start
  /\ Len(formatted_results) = 2
  /\ formatted_results[2].Tags = "General mention"

\* the tier an entity occurrence comes from: 1 known player, 2 known team,
\* 3 capitalized-word heuristic (which never keeps a known name)
KnownPlayer(name) ==
  \E i \in 1..Len(Table(analyzer.common_player_names)) :
    lower(Table(analyzer.common_player_names)[i]) = lower(name)

Tier(entity) ==
  IF entity.label = "ORG" THEN 2 ELSE IF KnownPlayer(entity.text) THEN 1 ELSE 3

Overlap(a, b) == a.start < b.end /\ b.start < a.end

\* C8: no character of the text is covered by two entity occurrences that come
\* from different tiers.
C8_NoSpanCoveredByTwoTiers ==
  Analyzed =>
    \A i, j \in 1..Len(entities) :
      Tier(entities[i]) # Tier(entities[j]) => ~Overlap(entities[i], entities[j])

\* C8, amended: no two entity occurrences cover the same span; the heuristic
\* skips a match whose text an occurrence already collected has, and nothing else.
C8_NoSpanCollectedTwice ==
  Analyzed =>
    \A i, j \in 1..Len(entities) :
      i < j => ~(entities[i].start = entities[j].start /\ entities[i].end = entities[j].end)

\* C8 witness: a heuristic occurrence that contains a known player's occurrence.
C8_Witness ==
  /\ Analyzed
  /\ \E i, j \in 1..Len(entities) :
       /\ Tier(entities[i]) = 1
       /\ Tier(entities[j]) = 3
       /\ entities[j].start < entities[i].start
       /\ entities[j].end = entities[i].end

\* the offsets at which a known name stands in the text as a whole word
Occurrences(name, text) ==
  {p \in 0..Len(text) :
     MatchesStr(name, text, p, TRUE) /\ AtBoundary(text, p) /\ AtBoundary(text, p + Len(name))}

SameText(a, b) == lower(a) = lower(b)

WithText(name) == {i \in 1..Len(entities) : SameText(entities[i].text, name)}

KnownNames == Elements(Table(analyzer.common_player_names)) \cup Elements(Table(analyzer.team_names))

\* the capitalized-word matches the heuristic considers
Candidates(text) ==
  {m \in Elements(finditer(name_pattern, text, FALSE)) : group0(text, m) \notin common_words}

\* C9: a known name at k offsets yields k occurrences and the heuristic adds none
\* with that text; a heuristic match is dropped exactly when an occurrence with
\* its text (case folded) is already collected, so an unknown name is kept once,
\* at its first match; the repeated-mention example has two occurrences of Messi.
C9_Deduplication ==
  Analyzed =>
    /\ \A name \in KnownNames :
         Cardinality(WithText(name)) = Cardinality(Occurrences(name, commentary_text))
    /\ \A m \in Candidates(commentary_text) :
         LET name == group0(commentary_text, m)
         IN (\A known \in KnownNames : ~SameText(known, name)) =>
              /\ Cardinality(WithText(name)) = 1
              /\ \A i \in WithText(name) :
                   /\ entities[i].label = "PERSON"
                   /\ entities[i].start =
                        Least({c.start : c \in {c \in Candidates(commentary_text) :
                                                  group0(commentary_text, c) = name}})
    /\ commentary_text = RepeatedMention =>
         Cardinality({i \in 1..Len(entities) : entities[i].text = "Messi"}) = 2

\* C9 witness: the repeated-mention example, analyzed: Messi twice, Later once.
C9_Witness ==
  /\ Analyzed
  /\ commentary_text = RepeatedMention
  /\ Len(entities) = 3

\* the rows that carry the goal tag
GoalRows == {i \in 1..Len(formatted_results) : "goal" \in TagsOf(formatted_results[i])}

\* C10: the overlay's goal events are the goals detected in the commentary, with
\* their timestamps; the two demo goals are used only when none is detected.
C10_GoalEventsAreDetected ==
  pc = "overlay_done" =>
    IF GoalRows = {} THEN goal_events = demo_goals
    ELSE /\ goal_events # demo_goals
         /\ {goal_events[k].timestamp : k \in 1..Len(goal_events)}
              = {formatted_results[i].Time : i \in GoalRows}

\* C11: an exception raised by analyze_commentary is caught by the handler that
\* called it and shown as an error; it never leaves the caller uncaught.
C11_AnalysisFaultsAreCaught == pc # "overlay_uncaught"

\* C12: for an empty or whitespace-only text analyze_commentary returns the
\* empty list and calls none of the four extraction steps.
C12_BlankTextShortCircuits ==
  (pc \in {"main_done", "overlay_done"} /\ strip(commentary_text) = "")
    => (formatted_results = <<>> /\ called = {})

C12_Witness ==
  pc = "overlay_done" /\ commentary_text = " \n" /\ formatted_results = <<>> /\ called = {}

\* the texts of the entities of one label, in the order of the list
LabelTexts(list, label) ==
  LET chosen == SelectSeq(list, LAMBDA e : e.label = label)
  IN [k \in 1..Len(chosen) |-> chosen[k].text]

\* C13: the Tags of a row are its event tags, then the texts of its PERSON
\* entities, then the texts of its ORG entities, joined by ", "; Tags is
\* "General mention" exactly when the timestamp has no nearby event and no
\* nearby entity.
C13_TagsLayout ==
  Analyzed =>
    \A i \in 1..Len(formatted_results) :
      LET result == analysis_results[i]
          Tags == formatted_results[i].Tags
          types == {result.events[k].type : k \in 1..Len(result.events)}
          persons == LabelTexts(result.entities, "PERSON")
          orgs == LabelTexts(result.entities, "ORG")
          n == Cardinality(types)
          parts == split(Tags, ", ")
      IN /\ (Tags = "General mention") <=> (result.events = <<>> /\ result.entities = <<>>)
         /\ Tags # "General mention" =>
              /\ Len(parts) = n + Len(persons) + Len(orgs)
              /\ {parts[k] : k \in 1..n} = types
              /\ SubSeq(parts, n + 1, n + Len(persons)) = persons
              /\ SubSeq(parts, n + Len(persons) + 1, Len(parts)) = orgs

C13_Witness ==
  /\ Analyzed
  /\ commentary_text = TeamScenario
  /\ \E i \in 1..Len(formatted_results) :
       /\ formatted_results[i].Tags = "goal, Messi, Zidane, Barcelona"
       /\ analysis_results[i].entities[2].label = "ORG"

InText(x, shown, text) ==
  /\ 0 <= x.start
  /\ x.start <= x.end
  /\ x.end <= Len(text)
  /\ shown = Slice(text, x.start, x.end)

\* C14: every occurrence of extract_timestamps, extract_events and
\* extract_players_and_entities has 0 <= start <= end <= len(text), and its
\* text is text[start:end].
C14_OccurrencesLieInText ==
  Analyzed =>
    /\ \A k \in 1..Len(timestamps) : InText(timestamps[k], timestamps[k].raw, commentary_text)
    /\ \A k \in 1..Len(events) : InText(events[k], events[k].text, commentary_text)
    /\ \A k \in 1..Len(entities) : InText(entities[k], entities[k].text, commentary_text)

C14_Witness ==
  /\ Analyzed
  /\ commentary_text = EnglishScenario
  /\ \E k \in 1..Len(events) : events[k].text = "GOAL" /\ events[k].start = 4 /\ events[k].end = 8
  /\ \E k \in 1..Len(entities) : entities[k].end = Len(commentary_text)
  /\ \E k \in 1..Len(timestamps) : timestamps[k].start = 0

\* the bounds of the slice taken around timestamp T
ContextLow(T) == IF T.start > 50 THEN T.start - 50 ELSE 0
ContextHigh(T, text) == IF T.end + 50 < Len(text) THEN T.end + 50 ELSE Len(text)

\* C15: the context of timestamp T is text[max(0, T.start-50) :
\* min(len(text), T.end+50)] without its leading and trailing whitespace; the
\* slice bounds stay within 0..len(text), the context contains T's own text,
\* and it has at most (T.end - T.start) + 100 characters.
C15_Context ==
  Analyzed =>
    \A i \in 1..Len(analysis_results) :
      LET T == timestamps[i]
          context == analysis_results[i].context
          low == ContextLow(T)
          high == ContextHigh(T, commentary_text)
          cut == Slice(commentary_text, low, high)
      IN /\ 0 <= low /\ low <= high /\ high <= Len(commentary_text)
         /\ context = "" \/ (CharAt(context, 0) \notin Whitespace
                              /\ CharAt(context, Len(context) - 1) \notin Whitespace)
         /\ \E q \in 0..(Len(cut) - Len(context)) :
              /\ Slice(cut, q, q + Len(context)) = context
              /\ \A p \in 0..(Len(cut) - 1) :
                   (p < q \/ p >= q + Len(context)) => CharAt(cut, p) \in Whitespace
         /\ Contains(context, T.raw)
         /\ Len(context) <= (T.end - T.start) + 100

\* a slice that ends inside a run of blanks, and a slice of full length
C15_Witness ==
  /\ Analyzed
  /\ \E i \in 1..Len(analysis_results) :
       /\ ContextHigh(timestamps[i], commentary_text) < Len(commentary_text)
       /\ Len(analysis_results[i].context)
            < ContextHigh(timestamps[i], commentary_text) - ContextLow(timestamps[i])
  /\ \E i \in 1..Len(analysis_results) :
       /\ ContextLow(timestamps[i]) = 0
       /\ analysis_results[i].context = commentary_text

\* C16: the Context of a row is the entry's context when that has at most 100
\* characters, and otherwise its first 100 characters followed by "..."; it
\* never has more than 103 characters.
C16_ContextTruncation ==
  Analyzed =>
    \A i \in 1..Len(formatted_results) :
      LET context == analysis_results[i].context
          Context == formatted_results[i].Context
      IN /\ Len(context) <= 100 => Context = context
         /\ Len(context) > 100 =>
              /\ Len(Context) = 103
              /\ SubSeq(Context, 1, 100) = SubSeq(context, 1, 100)
              /\ SubSeq(Context, 101, 103) = "..."
         /\ Len(Context) <= 103

C16_Witness ==
  /\ Analyzed
  /\ \E i \in 1..Len(formatted_results) :
       /\ Len(analysis_results[i].context) = 101
       /\ Len(formatted_results[i].Context) = 103

\* the event rules of a language profile
RulesOf(language) == IF language = "es" THEN event_patterns_es ELSE event_patterns_en

\* what the rules of a profile match in a text: type, start, end
RuleMatches(language, text) ==
  UNION {{<<RulesOf(language)[i][1], m.start, m.end>> :
            m \in Elements(finditer(RulesOf(language)[i][2], text, TRUE))} :
         i \in 1..Len(RulesOf(language))}

\* C17: an analyzer built with 'es' classifies events with the Spanish rules
\* only and one built with 'en' with the English rules only; the rule set and
\* the name lists are chosen at construction and are the same at every later
\* call; the 'es' analyzer returns for the Spanish scenario one row at 23'
\* tagged goal.
C17_LanguageProfile ==
  /\ pc # "start" =>
       /\ analyzer.language \in {"en", "es"}
       /\ analyzer.event_patterns = "event_patterns_" \o analyzer.language
       /\ analyzer.common_player_names = "common_player_names_" \o analyzer.language
       /\ analyzer.team_names = "team_names_" \o analyzer.language
  /\ Analyzed =>
       {<<e.type, e.start, e.end>> : e \in Elements(events)}
         = RuleMatches(analyzer.language, commentary_text)
  /\ (Analyzed /\ analyzer.language = "es" /\ commentary_text = SpanishScenario) =>
       /\ Len(formatted_results) = 1
       /\ formatted_results[1].Time = "23'"
       /\ "goal" \in TagsOf(formatted_results[1])

\* the Spanish scenario, analyzed a second time
C17_Witness ==
  /\ Analyzed
  /\ runs = 2
  /\ analyzer.language = "es"
  /\ commentary_text = SpanishScenario
  /\ "goal" \in TagsOf(formatted_results[1])
  /\ RuleMatches("en", commentary_text) = {}

\* the matches of timestamp form i in a text
FormMatches(i, text) == Elements(finditer(timestamp_patterns[i], text, TRUE))

\* C18: each timestamp form is matched on its own and every match of every
\* form is kept: a span matched by two forms gives two occurrences and two
\* rows (1:23:45 gives 1:23 and 1:23:45, 7:05' gives 7:05 and 05'); none is
\* dropped for overlapping another.
C18_AllFormsKept ==
  Analyzed =>
    /\ \A i \in 1..Len(timestamp_patterns) :
         \A m \in FormMatches(i, commentary_text) :
           \E k \in 1..Len(timestamps) :
             timestamps[k].start = m.start /\ timestamps[k].end = m.end
    /\ Len(timestamps) = Cardinality(FormMatches(1, commentary_text))
                          + Cardinality(FormMatches(2, commentary_text))
                          + Cardinality(FormMatches(3, commentary_text))
                          + Cardinality(FormMatches(4, commentary_text))
    /\ Len(formatted_results) = Len(timestamps)

C18_Witness ==
  /\ Analyzed
  /\ commentary_text = OverlapScenario
  /\ Len(formatted_results) = 2
  /\ formatted_results[1].Time = "7:05"
  /\ formatted_results[2].Time = "05'"
  /\ timestamps[2].start < timestamps[1].end

\* the place of an event type among the rules of a profile
RuleIndex(language, type) ==
  CHOOSE i \in 1..Len(RulesOf(language)) : RulesOf(language)[i][1] = type

\* C19: extract_events gives one occurrence for every match of every one of
\* the 14 rules of the active profile, grouped by rule in the order the rules
\* are declared; a span that the rules of two event types match gives one
\* occurrence per type.
C19_EventsPerRule ==
  /\ Len(event_patterns_en) = 14
  /\ Len(event_patterns_es) = 14
  /\ Analyzed =>
       LET language == analyzer.language
           found == {<<events[k].type, events[k].start, events[k].end>> : k \in 1..Len(events)}
       IN /\ found = RuleMatches(language, commentary_text)
          /\ Len(events) = Cardinality(RuleMatches(language, commentary_text))
          /\ \A j, k \in 1..Len(events) :
               j < k =>
                 \/ RuleIndex(language, events[j].type) < RuleIndex(language, events[k].type)
                 \/ /\ events[j].type = events[k].type
                    /\ events[j].end <= events[k].start

\* "falta" is a free kick and a foul
C19_Witness ==
  /\ Analyzed
  /\ analyzer.language = "es"
  /\ \E j, k \in 1..Len(events) :
       /\ j < k
       /\ events[j].type = "free_kick"
       /\ events[k].type = "foul"
       /\ events[j].text = "falta"
       /\ events[j].start = events[k].start
       /\ events[j].end = events[k].end

\* the recognizer gave no PERSON entity that matches a known player
NoCloudPlayer ==
  \A k \in 1..Len(response.Entities) :
    ~(response.Entities[k].Type = "PERSON" /\ KnownPlayerKey(response.Entities[k].Text) # "None")

\* C20: the cloud recognizer never makes extract_player_from_event raise; when
\* the recognizer is absent, raises, or returns no PERSON entity that matches a
\* known player, the function returns what its local pattern matching gives.
C20_RecognizerFallback ==
  /\ ~raised
  /\ pc # "ad_uncaught"
  /\ (pc = "ad_shown" /\ (~aws_available \/ response.kind # "ok" \/ NoCloudPlayer)) =>
       player_key = local_pattern_matching(event_text)

\* the recognizer raised, and the local patterns found the player
C20_Witness ==
  /\ pc = "ad_shown"
  /\ aws_available
  /\ response.kind = "raises"
  /\ event_text = "Haaland finds the net"
  /\ player_key = "haaland"

\* the entities of the response that are a PERSON naming a known player with a
\* score of at least the threshold (in hundredths)
AtLeastThreshold ==
  {k \in 1..Len(response.Entities) :
     /\ response.Entities[k].Type = "PERSON"
     /\ response.Entities[k].Score >= 80
     /\ KnownPlayerKey(response.Entities[k].Text) # "None"}

\* C21: a PERSON entity of the recognizer's response whose score is at least
\* 0.8 and whose text matches a known player resolves the player, and an
\* entity with a score below 0.8 is never used: without such an entity the
\* result is that of the local patterns.
C21_MinimumThreshold ==
  (pc = "ad_shown" /\ aws_available /\ response.kind = "ok") =>
    IF AtLeastThreshold # {}
      THEN player_key = KnownPlayerKey(response.Entities[Least(AtLeastThreshold)].Text)
      ELSE player_key = local_pattern_matching(event_text)

C23_PollingTerminates ==
  /\ <>(pc \in {"video_returned", "video_raised"})
  /\ [](/\ polls <= 30
        /\ pc = "video_polling" => poll_result.status \in {"None", "in_progress", "error"}
        /\ (pc = "video_returned" /\ poll_result.status = "completed") =>
             video_result = poll_result
        /\ (pc = "video_returned" /\ poll_result.status = "failed") =>
             video_result = NoResult
        /\ (pc = "video_returned" /\ job_name # None /\ polls = 30
              /\ poll_result.status \in {"in_progress", "error"} /\ wait_time = max_wait_time) =>
             (video_result.status = "timeout" /\ video_result.job_name = job_name)
        /\ video_result.status = "timeout" => polls = 30)

\* the job was still in progress at the thirtieth query and the call returned
\* the timeout record
C23_Witness ==
  /\ pc = "video_returned"
  /\ polls = 30
  /\ poll_result.status = "in_progress"
  /\ video_result.status = "timeout"

\* C27: once audio extraction has returned a path, the temporary audio file is
\* deleted when process_video_file is left, on every exit path: upload failure,
\* job completed, job failed, polling timeout, and any raised exception.
C27_AudioFileDeleted ==
  (audio_path # None /\ pc \in {"video_returned", "video_raised"}) => ~audio_file

\* the step is a status query whose result is 'error', 'in_progress' or absent
QueryWithoutVerdict ==
  /\ pc = "video_polling"
  /\ polls' = polls + 1
  /\ poll_result'.status \in {"error", "in_progress", "None"}

\* an exception was raised after the query, in the sleep or the progress update
RaisedAfterQuery ==
  \/ pc' = "video_raised"
  \/ (pc' = "video_returned" /\ messages' = Append(messages, "error: processing video"))

\* C28: a status result of 'error', 'in_progress' or an absent result does not
\* end the polling loop and shows no error: the loop goes on with the next
\* 10 s step (unless the sleep or the progress update itself raises).
C28_PollingContinues ==
  [][(QueryWithoutVerdict /\ ~RaisedAfterQuery) =>
       /\ pc' = "video_polling"
       /\ wait_time' = wait_time + 10
       /\ messages' = messages
       /\ video_result' = video_result
       /\ audio_file' = audio_file]_vars

\* a status query raised, the next one reported the job in progress, and the
\* loop is still running
C28_Witness ==
  /\ pc = "video_polling"
  /\ polls = 2
  /\ wait_time = 20
  /\ poll_result.status = "in_progress"
  /\ messages = <<>>

\* C24: in both overlay players each goal ad is shown at most once during the
\* lifetime of the page, whatever events occur.
C24_EachAdShownOnce ==
  pc = "page" => \A i \in 1..Len(shows) : shows[i] <= 1

\* C26: in the player of create_overlay_video_container, while an ad is current
\* (shown, and no hideAd since) the overlay's display is 'block': no timer
\* started before the show hides the overlay.
C26_ShownAdStaysDisplayed ==
  (pc = "page" /\ overlay_player = "create_overlay_video_container" /\ currentAd # NoAd) =>
    display = "block"

\* the keys of merchandise_db
MerchandiseKeys == {merchandise_db[k].key : k \in 1..Len(merchandise_db)}

\* C25: once an ad builder has run over its goal events, no exception has
\* left the conversion of their timestamps, and the trigger time of the event
\* at index i (from 0) is 60*M + S when its timestamp splits on ':' into
\* exactly two parts M and S, and 60*i in every other case.
C25_TriggerTime ==
  pc \in {"ads_built", "builder_uncaught"} =>
    /\ ~builder_raised
    /\ Len(goal_ads) = Len(goal_events)
    /\ \A n \in 1..Len(goal_events) :
         LET timestamp_str == get(goal_events[n], "timestamp", str((n - 1) * 60) \o ":00")
             parts == split(timestamp_str, ":")
         IN goal_ads[n].time = IF Len(parts) = 2
                                 THEN 60 * DecimalValue(parts[1]) + DecimalValue(parts[2])
                                 ELSE 60 * (n - 1)

\* a builder has converted '1:23:45' at index 1 to 60 and '0:30' at index 0
\* to 30
C25_Witness ==
  /\ pc = "ads_built"
  /\ Len(goal_events) = 2
  /\ goal_events[1] = demo_goals[1]
  /\ goal_ads[1].time = 30
  /\ "timestamp" \in DOMAIN goal_events[2]
  /\ goal_events[2].timestamp = "1:23:45"
  /\ goal_ads[2].time = 60

\* C30: once an ad builder has run, what extract_player_from_event returned
\* for each event is None or a key of merchandise_db, the event's ad carries
\* the merchandise of that key, or that of 'messi' when None was returned, and
\* no lookup has raised.
C30_MerchandiseLookup ==
  pc \in {"ads_built", "builder_uncaught"} =>
    /\ ~builder_raised
    /\ Len(goal_ads) = Len(goal_events)
    /\ \A n \in 1..Len(goal_events) :
         /\ ad_player_keys[n] \in {None} \cup MerchandiseKeys
         /\ \E k \in 1..Len(merchandise_db) :
              /\ merchandise_db[k].key = IF ad_player_keys[n] = None THEN "messi"
                                                                    ELSE ad_player_keys[n]
              /\ goal_ads[n].player = merchandise_db[k].name
              /\ goal_ads[n].team = merchandise_db[k].team
              /\ goal_ads[n].price = merchandise_db[k].jersey_price
              /\ goal_ads[n].description = merchandise_db[k].description

\* a builder has made one ad for an event whose player was not found, with
\* Messi's jersey, and one for a goal of Haaland, with Haaland's
C30_Witness ==
  /\ pc = "ads_built"
  /\ \E n \in 1..Len(goal_events) :
       ad_player_keys[n] = None /\ goal_ads[n].player = "Lionel Messi"
  /\ \E n \in 1..Len(goal_events) :
       ad_player_keys[n] = "haaland" /\ goal_ads[n].player = "Erling Haaland"

\* the capitalized-word matches with the text of match m
Mentions(m) ==
  {c \in Candidates(commentary_text) : group0(commentary_text, c) = group0(commentary_text, m)}

\* the first of them
FirstMention(m) == CHOOSE c \in Mentions(m) : \A d \in Mentions(m) : c.start <= d.start

\* C29: a capitalized name that is neither a listed player nor a listed team
\* and is matched several times is one entity, at the offset of its first
\* match, and a timestamp that is within the window of a later match but not
\* of the first has no entity of that name in its row.
C29_HeuristicSuppressesRepeats ==
  Analyzed =>
    \A m \in Candidates(commentary_text) :
      LET name == group0(commentary_text, m)
      IN ((\A known \in KnownNames : ~SameText(known, name)) /\ Cardinality(Mentions(m)) > 1) =>
           /\ Cardinality(WithText(name)) = 1
           /\ \A i \in WithText(name) : entities[i].start = FirstMention(m).start
           /\ \A r \in 1..Len(timestamps) :
                ( /\ \E later \in Mentions(m) \ {FirstMention(m)} :
                       \/ abs(later.start - timestamps[r].start) <= 50
                       \/ abs(later.end - timestamps[r].end) <= 50
                  /\ abs(FirstMention(m).start - timestamps[r].start) > 50
                  /\ abs(FirstMention(m).end - timestamps[r].end) > 50 )
                => \A k \in 1..Len(analysis_results[r].entities) :
                     ~SameText(analysis_results[r].entities[k].text, name)

\* the text with Zidane far before 23' and again next to it, analyzed: one
\* entity Zidane at offset 0, and the row of 23' has no entity
C29_Witness ==
  /\ Analyzed
  /\ commentary_text = LaterMention
  /\ Cardinality({i \in 1..Len(entities) : entities[i].text = "Zidane"}) = 1
  /\ \E i \in 1..Len(entities) : entities[i].text = "Zidane" /\ entities[i].start = 0
  /\ Len(analysis_results) = 1
  /\ analysis_results[1].timestamp = "23'"
  /\ analysis_results[1].entities = <<>>

====
